---- MODULE Spec2Model ----
(***************************************************************************)
(* DY-SV19T UART audio module driver (dy_sv19t.py): frame codec,           *)
(* resynchronizing receiver and command/query facade.                      *)
(*                                                                         *)
(* Bytes are integers 0..255, byte strings are sequences of bytes.         *)
(* Python's None is NoCmd (expected_cmd) or a result of kind "none".       *)
(***************************************************************************)
EXTENDS Integers, Sequences, FiniteSets, TLC

VARIABLES
    \* Device State cache (attributes of a DYSV19T instance)
    play_state, current_disk, volume, play_mode, eq, dac_channel,
    \* UART: bytes received and not yet read; frames written by the running
    \* (or last) facade call
    rx, written, wstat,
    \* the facade call in progress or last completed, and its outcome
    pc, op, args, result,
    \* locals of _recv_response
    expected_cmd, buf, state, need, elapsed,
    \* history of the running receive call
    rxseen, scn,
    \* the volume the peripheral plays at
    dev_volume,
    \* attributes of a musicTask instance, and what the status query of its
    \* last tick returned
    task_count, task_time_segment, queried,
    \* a CircularBuffer: its deque, the last method called and its outcome
    rb_data, rb_op, rb_ret,
    \* a VibrationSensor: its attributes, the millisecond clock, the callbacks
    \* waiting in the schedule queue, the last step and its outcome
    _last_trigger, _last_state, _callback, pin_level, ticks_ms, scheduled,
    vs_op, vs_ret,
    \* codec harness: the inputs of _build_frame, its output, the bytes handed
    \* to _parse_response and its outcome
    c_cmd, c_data, c_frame, c_raw, c_kind, c_parsed, c_step

cacheVars == <<play_state, current_disk, volume, play_mode, eq, dac_channel>>
uartVars  == <<rx, written, wstat>>
callVars  == <<pc, op, args, result>>
recvVars  == <<expected_cmd, buf, state, need, elapsed, rxseen, scn>>
codecVars == <<c_cmd, c_data, c_frame, c_raw, c_kind, c_parsed, c_step>>
taskVars  == <<task_count, task_time_segment, queried>>
ringVars  == <<rb_data, rb_op, rb_ret>>
sensorVars ==
    <<_last_trigger, _last_state, _callback, pin_level, ticks_ms, scheduled, vs_op, vs_ret>>
otherVars == <<taskVars, ringVars, sensorVars>>
vars == <<cacheVars, uartVars, callVars, recvVars, codecVars, dev_volume, otherVars>>

---------------------------------------------------------------------------
\* Bounds of the model

\* longest payload handed to _build_frame by the codec harness
MaxLen == 2
\* the configured timeout_ms, in clock ticks
TimeoutMs == 2
\* most bytes in flight in one receive call (buffered in buf plus unread in rx)
MaxStream == 10
\* most bytes a facade call leaves unread in the UART
MaxRx == 5

---------------------------------------------------------------------------
\* Program constants

START == 170

DISK_USB == 0
DISK_SD == 1
DISK_FLASH == 2
DISK_NONE == 255

PLAY_STOP == 0
PLAY_PLAY == 1
PLAY_PAUSE == 2

MODE_FULL_LOOP == 0
MODE_SINGLE_LOOP == 1
MODE_SINGLE_STOP == 2
MODE_FULL_RANDOM == 3
MODE_DIR_LOOP == 4
MODE_DIR_RANDOM == 5
MODE_DIR_SEQUENCE == 6
MODE_SEQUENCE == 7

EQ_NORMAL == 0
EQ_POP == 1
EQ_ROCK == 2
EQ_JAZZ == 3
EQ_CLASSIC == 4

CH_MP3 == 0
CH_AUX == 1
CH_MP3_AUX == 2

VOLUME_MIN == 0
VOLUME_MAX == 30

\* expected_cmd = None
NoCmd == -1

\* the messages of the ValueErrors _parse_response raises
ErrTooShort == "The response is too short."
ErrBadStart == "Initial code error"
ErrLengthMismatch == "Length mismatch"
ErrChecksum == "The volume must be between 0..30"
\* the message of the ValueError set_volume raises
ErrVolumeRange == "The volume must be between 0..30"

---------------------------------------------------------------------------
\* Frame codec

\* sm = 0; for b in s: sm = (sm + b) & 0xFF. The loop's result is the sum of
\* the bytes modulo 256; it is added up by halves so that long strings are
\* evaluated at a small depth
RECURSIVE Sum8(_)
Sum8(s) ==
    IF s = <<>> THEN 0
    ELSE IF Len(s) = 1 THEN s[1] % 256
    ELSE (Sum8(SubSeq(s, 1, Len(s) \div 2))
             + Sum8(SubSeq(s, Len(s) \div 2 + 1, Len(s)))) % 256

\* the arithmetic sum of a byte string
RECURSIVE ArithSum(_)
ArithSum(s) ==
    IF s = <<>> THEN 0
    ELSE IF Len(s) = 1 THEN s[1]
    ELSE ArithSum(SubSeq(s, 1, Len(s) \div 2))
             + ArithSum(SubSeq(s, Len(s) \div 2 + 1, Len(s)))

build_frame_unmasked(cmd, data) ==
    LET body == <<START, cmd, Len(data)>> \o data
    IN  Append(body, ArithSum(body))

build_frame_lenplus(cmd, data) ==
    LET body == <<START, cmd, (Len(data) + 1) % 256>> \o data
    IN  Append(body, Sum8(body))

\* _build_frame: AA CMD LEN DATA... SM. frame[2] = len(data) stores into a
\* bytearray: MicroPython keeps the low eight bits of the value
_build_frame(cmd, data) ==
    LET body == <<START, cmd, Len(data) % 256>> \o data
    IN  Append(body, Sum8(body))

ParseError(msg) == [ok |-> FALSE, err |-> msg, cmd |-> NoCmd, data |-> <<>>]
ParseOk(cmd, data) == [ok |-> TRUE, err |-> "", cmd |-> cmd, data |-> data]

parse_response_nosum(resp) ==
    IF Len(resp) < 4 THEN ParseError(ErrTooShort)
    ELSE IF resp[1] # START THEN ParseError(ErrBadStart)
    ELSE IF Len(resp) # 4 + resp[3] THEN ParseError(ErrLengthMismatch)
    ELSE ParseOk(resp[2], SubSeq(resp, 4, 3 + resp[3]))

\* the checksum compared before the length
parse_response_sum_first(resp) ==
    IF Len(resp) < 4 THEN ParseError(ErrTooShort)
    ELSE IF resp[1] # START THEN ParseError(ErrBadStart)
    ELSE IF Sum8(SubSeq(resp, 1, Len(resp) - 1)) # resp[Len(resp)]
         THEN ParseError(ErrChecksum)
    ELSE IF Len(resp) # 4 + resp[3] THEN ParseError(ErrLengthMismatch)
    ELSE ParseOk(resp[2], SubSeq(resp, 4, 3 + resp[3]))

\* _parse_response: the parsed {'cmd', 'data'} or the ValueError raised
_parse_response(resp) ==
    IF Len(resp) < 4 THEN ParseError(ErrTooShort)
    ELSE IF resp[1] # START THEN ParseError(ErrBadStart)
    ELSE IF Len(resp) # 4 + resp[3] THEN ParseError(ErrLengthMismatch)
    ELSE IF Sum8(SubSeq(resp, 1, Len(resp) - 1)) # resp[Len(resp)]
         THEN ParseError(ErrChecksum)
    ELSE ParseOk(resp[2], SubSeq(resp, 4, 3 + resp[3]))

---------------------------------------------------------------------------
\* Codec harness: _build_frame and _parse_response applied to drawn inputs

CmdSamples == {0, 1, 170, 255}
ByteSamples == {0, 1, 170, 255}

SeqsUpTo(S, n) == UNION {[1..k -> S] : k \in 0..n}

FlipBit(b, k) == IF (b \div (2 ^ k)) % 2 = 1 THEN b - 2 ^ k ELSE b + 2 ^ k

NoParse == [ok |-> FALSE, err |-> "not parsed", cmd |-> NoCmd, data |-> <<>>]

CodecIdle ==
    /\ c_cmd = 0 /\ c_data = <<>> /\ c_frame = <<>> /\ c_raw = <<>>
    /\ c_kind = "none" /\ c_parsed = NoParse /\ c_step = "off"

\* frame = self._build_frame(cmd, data)
Encode ==
    /\ c_step = "init"
    /\ c_frame' = _build_frame(c_cmd, c_data)
    /\ c_raw' = c_frame'
    /\ c_kind' = "clean"
    /\ c_step' = "built"
    /\ UNCHANGED <<c_cmd, c_data, c_parsed>>
    /\ UNCHANGED <<cacheVars, uartVars, callVars, recvVars>>
    /\ UNCHANGED <<dev_volume, otherVars>>

\* the line drops the tail of the frame
CorruptTruncate ==
    /\ c_step = "built"
    /\ \E k \in 0..(Len(c_frame) - 1) : c_raw' = SubSeq(c_frame, 1, k)
    /\ c_kind' = "truncated"
    /\ c_step' = "raw"
    /\ UNCHANGED <<c_cmd, c_data, c_frame, c_parsed>>
    /\ UNCHANGED <<cacheVars, uartVars, callVars, recvVars>>
    /\ UNCHANGED <<dev_volume, otherVars>>

\* the line replaces one byte of the frame
CorruptByte ==
    /\ c_step = "built"
    /\ \E i \in 1..Len(c_frame), v \in ByteSamples :
        /\ v # c_frame[i]
        /\ c_raw' = [c_frame EXCEPT ![i] = v]
        /\ c_kind' = IF i = Len(c_frame) THEN "checksum"
                     ELSE IF i = 1 THEN "start"
                     ELSE IF i = 2 THEN "cmd"
                     ELSE IF i = 3 THEN "length" ELSE "payload"
    /\ c_step' = "raw"
    /\ UNCHANGED <<c_cmd, c_data, c_frame, c_parsed>>
    /\ UNCHANGED <<cacheVars, uartVars, callVars, recvVars>>
    /\ UNCHANGED <<dev_volume, otherVars>>

\* the line flips one bit of the checksum byte
CorruptFlip ==
    /\ c_step = "built"
    /\ \E k \in 0..7 :
        c_raw' = [c_frame EXCEPT ![Len(c_frame)] = FlipBit(c_frame[Len(c_frame)], k)]
    /\ c_kind' = "flip"
    /\ c_step' = "raw"
    /\ UNCHANGED <<c_cmd, c_data, c_frame, c_parsed>>
    /\ UNCHANGED <<cacheVars, uartVars, callVars, recvVars>>
    /\ UNCHANGED <<dev_volume, otherVars>>

\* a stray byte follows the frame
CorruptExtend ==
    /\ c_step = "built"
    /\ \E v \in ByteSamples : c_raw' = Append(c_frame, v)
    /\ c_kind' = "extended"
    /\ c_step' = "raw"
    /\ UNCHANGED <<c_cmd, c_data, c_frame, c_parsed>>
    /\ UNCHANGED <<cacheVars, uartVars, callVars, recvVars>>
    /\ UNCHANGED <<dev_volume, otherVars>>

\* parsed = self._parse_response(raw)
Decode ==
    /\ c_step \in {"built", "raw"}
    /\ c_parsed' = _parse_response(c_raw)
    /\ c_step' = "parsed"
    /\ UNCHANGED <<c_cmd, c_data, c_frame, c_raw, c_kind>>
    /\ UNCHANGED <<cacheVars, uartVars, callVars, recvVars>>
    /\ UNCHANGED <<dev_volume, otherVars>>

---------------------------------------------------------------------------
\* Driver state after construction with the default arguments

None == [kind |-> "none", err |-> "", msg |-> "", val |-> <<>>]
Value(v) == [kind |-> "val", err |-> "", msg |-> "", val |-> v]
Raised(cls, m) == [kind |-> "raise", err |-> cls, msg |-> m, val |-> <<>>]
NoScn == [kind |-> "none", valid |-> <<>>]

\* musicTask.__init__
musicTask_init == task_count = 0 /\ task_time_segment = 0 /\ queried = <<>>

\* CircularBuffer.__init__: an empty deque
CircularBuffer_init == rb_data = <<>> /\ rb_op = "none" /\ rb_ret = None

\* VibrationSensor.__init__(pin, callback, debounce_ms), cb telling whether a
\* callback is given; the clock reads 0 and nothing is scheduled
VibrationSensor_init(cb) ==
    /\ _callback = cb /\ _last_trigger = 0 /\ _last_state = FALSE
    /\ pin_level = FALSE /\ ticks_ms = 0 /\ scheduled = 0
    /\ vs_op = "none" /\ vs_ret = None

\* the objects beside the driver, freshly constructed
OthersInit == musicTask_init /\ CircularBuffer_init /\ VibrationSensor_init(FALSE)

\* __init__(uart): the cache holds the defaults, nothing is written or read;
\* the peripheral is taken to play at the cached volume at that moment
InitDriver ==
    /\ play_state = PLAY_STOP
    /\ current_disk = DISK_USB
    /\ volume = VOLUME_MAX
    /\ play_mode = MODE_SINGLE_STOP
    /\ eq = EQ_NORMAL
    /\ dac_channel = CH_MP3
    /\ rx = <<>> /\ written = <<>> /\ wstat = "none"
    /\ pc = "idle" /\ op = "none" /\ args = <<>> /\ result = None
    /\ expected_cmd = NoCmd /\ buf = <<>> /\ state = 0 /\ need = 0 /\ elapsed = 0
    /\ rxseen = FALSE /\ scn = NoScn
    /\ dev_volume = volume

---------------------------------------------------------------------------
\* Resynchronizing receiver

\* the locals of _recv_response before its loop
RecvStart == [buf |-> <<>>, state |-> 0, need |-> 0, ret |-> <<>>]

recv_byte_unchecked(loc, x, exp) ==
    IF loc.state = 0
    THEN IF x = START
         THEN [buf |-> <<START>>, state |-> 1, need |-> loc.need, ret |-> <<>>]
         ELSE [loc EXCEPT !.ret = <<>>]
    ELSE LET b == Append(loc.buf, x)
             n == IF Len(b) = 3 THEN 4 + b[3] ELSE loc.need
         IN  IF Len(b) >= 3 /\ Len(b) = n
             THEN [buf |-> b, state |-> 1, need |-> n, ret |-> b]
             ELSE [buf |-> b, state |-> 1, need |-> n, ret |-> <<>>]

recv_byte_nofilter(loc, x, exp) ==
    IF loc.state = 0
    THEN IF x = START
         THEN [buf |-> <<START>>, state |-> 1, need |-> loc.need, ret |-> <<>>]
         ELSE [loc EXCEPT !.ret = <<>>]
    ELSE LET b == Append(loc.buf, x)
             n == IF Len(b) = 3 THEN 4 + b[3] ELSE loc.need
         IN  IF Len(b) >= 3 /\ Len(b) = n
             THEN IF ~_parse_response(b).ok
                  THEN [buf |-> <<>>, state |-> 0, need |-> n, ret |-> <<>>]
                  ELSE [buf |-> b, state |-> 1, need |-> n, ret |-> b]
             ELSE [buf |-> b, state |-> 1, need |-> n, ret |-> <<>>]

\* one pass of the loop body of _recv_response on the byte x just read:
\* the locals after it, and in ret the frame returned (<<>>: no return)
recv_byte(loc, x, exp) ==
    IF loc.state = 0
    THEN IF x = START
         THEN [buf |-> <<START>>, state |-> 1, need |-> loc.need, ret |-> <<>>]
         ELSE [loc EXCEPT !.ret = <<>>]
    ELSE LET b == Append(loc.buf, x)
             n == IF Len(b) = 3 THEN 4 + b[3] ELSE loc.need
         IN  IF Len(b) >= 3 /\ Len(b) = n
             THEN LET parsed == _parse_response(b)
                  IN  IF ~parsed.ok
                      THEN [buf |-> <<>>, state |-> 0, need |-> n, ret |-> <<>>]
                      ELSE IF exp = NoCmd \/ parsed.cmd = exp
                      THEN [buf |-> b, state |-> 1, need |-> n, ret |-> b]
                      ELSE [buf |-> <<>>, state |-> 0, need |-> n, ret |-> <<>>]
             ELSE [buf |-> b, state |-> 1, need |-> n, ret |-> <<>>]

\* the whole loop of _recv_response over the bytes read before the deadline:
\* the frame returned (<<>>: None) and the number of bytes read
RECURSIVE RecvLoop(_, _, _, _)
RecvLoop(loc, stream, exp, used) ==
    IF stream = <<>>
    THEN [ret |-> <<>>, used |-> used]
    ELSE LET r == recv_byte(loc, Head(stream), exp)
         IN  IF r.ret # <<>>
             THEN [ret |-> r.ret, used |-> used + 1]
             ELSE RecvLoop(r, Tail(stream), exp, used + 1)

recv_response(stream, exp) == RecvLoop(RecvStart, stream, exp, 0)

\* the caller takes the outcome of the finished call
Ack ==
    /\ pc = "done"
    /\ pc' = "idle" /\ op' = "none" /\ args' = <<>> /\ result' = None
    /\ written' = <<>> /\ wstat' = "none"
    /\ expected_cmd' = NoCmd /\ rxseen' = FALSE /\ scn' = NoScn
    /\ UNCHANGED <<rx, buf, state, need, elapsed>>
    /\ UNCHANGED <<cacheVars, codecVars>>
    /\ UNCHANGED <<dev_volume, otherVars>>

---------------------------------------------------------------------------
\* The receiver run byte by byte against a live peripheral

ExpectedSamples == {NoCmd, 1}

\* frames and stray bytes the peripheral may put on the line
RecvItems ==
    {_build_frame(c, <<1>>) : c \in {1, 10}}
        \cup {<<170, 1, 1, 1, 0>>, <<170>>, <<0, 1>>}

\* the ways the line may corrupt the frame f
CorruptVals == {0, 2, 170}
Corruptions(f) ==
    {[kind |-> "payload", bytes |-> [f EXCEPT ![i] = v]] :
        i \in {j \in 4..(Len(f) - 1) : TRUE}, v \in {w \in CorruptVals : TRUE}}
    \cup {[kind |-> "checksum", bytes |-> [f EXCEPT ![Len(f)] = v]] : v \in CorruptVals}
    \cup {[kind |-> "length", bytes |-> [f EXCEPT ![3] = v]] : v \in CorruptVals}
    \cup {[kind |-> "truncated", bytes |-> SubSeq(f, 1, k)] : k \in 1..(Len(f) - 1)}

ScnFrames == {_build_frame(1, <<1>>), _build_frame(2, <<>>)}

RecvCall_keep ==
    /\ pc = "idle"
    /\ \E e \in ExpectedSamples : expected_cmd' = e /\ args' = <<e>>
    /\ pc' = "recv" /\ op' = "_recv_response" /\ result' = None
    /\ elapsed' = 0
    /\ rxseen' = FALSE /\ scn' = NoScn
    /\ UNCHANGED <<buf, state, need>>
    /\ UNCHANGED <<rx, written, wstat>>
    /\ UNCHANGED <<cacheVars, codecVars>>
    /\ UNCHANGED <<dev_volume, otherVars>>

\* resp = self._recv_response(expected_cmd=e): entry, before the loop.
\* buf, state and need hold the locals of the most recent call: a return
\* leaves their last values behind and the next call initialises them anew
RecvCall ==
    /\ pc = "idle"
    /\ \E e \in ExpectedSamples : expected_cmd' = e /\ args' = <<e>>
    /\ pc' = "recv" /\ op' = "_recv_response" /\ result' = None
    /\ buf' = <<>> /\ state' = 0 /\ need' = 0 /\ elapsed' = 0
    /\ rxseen' = FALSE /\ scn' = NoScn
    /\ UNCHANGED <<rx, written, wstat>>
    /\ UNCHANGED <<cacheVars, codecVars>>
    /\ UNCHANGED <<dev_volume, otherVars>>

RecvTimeout_restart ==
    /\ pc = "recv"
    /\ elapsed >= TimeoutMs
    /\ elapsed' = 0
    /\ UNCHANGED <<expected_cmd, buf, state, need, rxseen, scn>>
    /\ UNCHANGED <<cacheVars, uartVars, callVars, codecVars>>
    /\ UNCHANGED <<dev_volume, otherVars>>

\* the loop condition fails: return None
RecvTimeout ==
    /\ pc = "recv"
    /\ elapsed >= TimeoutMs
    /\ pc' = "done" /\ result' = None
    /\ elapsed' = 0
    /\ UNCHANGED <<op, args, expected_cmd, buf, state, need, rxseen, scn>>
    /\ UNCHANGED <<cacheVars, uartVars, codecVars>>
    /\ UNCHANGED <<dev_volume, otherVars>>

\* uart.read(1) returns nothing: time.sleep_ms(1)
RecvSleep ==
    /\ pc = "recv"
    /\ elapsed < TimeoutMs
    /\ rx = <<>>
    /\ elapsed' = elapsed + 1
    /\ UNCHANGED <<expected_cmd, buf, state, need, rxseen, scn>>
    /\ UNCHANGED <<cacheVars, uartVars, callVars, codecVars>>
    /\ UNCHANGED <<dev_volume, otherVars>>

RecvByte_drain ==
    /\ pc = "recv"
    /\ elapsed < TimeoutMs
    /\ rx # <<>>
    /\ LET r == recv_byte([buf |-> buf, state |-> state, need |-> need, ret |-> <<>>],
                          Head(rx), expected_cmd)
       IN  /\ buf' = r.buf /\ state' = r.state /\ need' = r.need
           /\ IF r.ret # <<>>
              THEN pc' = "done" /\ result' = Value(r.ret) /\ elapsed' = 0 /\ rx' = <<>>
              ELSE UNCHANGED <<pc, result, elapsed>> /\ rx' = Tail(rx)
    /\ rxseen' = TRUE
    /\ UNCHANGED <<op, args, expected_cmd, scn, written, wstat>>
    /\ UNCHANGED <<cacheVars, codecVars>>
    /\ UNCHANGED <<dev_volume, otherVars>>

\* uart.read(1) returns a byte: one pass of the state machine
RecvByte ==
    /\ pc = "recv"
    /\ elapsed < TimeoutMs
    /\ rx # <<>>
    /\ LET r == recv_byte([buf |-> buf, state |-> state, need |-> need, ret |-> <<>>],
                          Head(rx), expected_cmd)
       IN  /\ buf' = r.buf /\ state' = r.state /\ need' = r.need
           /\ IF r.ret # <<>>
              THEN pc' = "done" /\ result' = Value(r.ret) /\ elapsed' = 0
              ELSE UNCHANGED <<pc, result, elapsed>>
    /\ rx' = Tail(rx)
    /\ rxseen' = TRUE
    /\ UNCHANGED <<op, args, expected_cmd, scn, written, wstat>>
    /\ UNCHANGED <<cacheVars, codecVars>>
    /\ UNCHANGED <<dev_volume, otherVars>>

\* the millisecond clock advances while the call runs
Tick ==
    /\ pc = "recv"
    /\ elapsed < TimeoutMs
    /\ elapsed' = elapsed + 1
    /\ UNCHANGED <<expected_cmd, buf, state, need, rxseen, scn>>
    /\ UNCHANGED <<cacheVars, uartVars, callVars, codecVars>>
    /\ UNCHANGED <<dev_volume, otherVars>>

\* the peripheral puts a frame or a stray byte on the line
PeripheralSend ==
    /\ pc \in {"idle", "recv"}
    /\ scn = NoScn
    /\ \E item \in RecvItems :
        /\ Len(buf) + Len(rx) + Len(item) <= MaxStream
        /\ rx' = rx \o item
    /\ UNCHANGED <<written, wstat>>
    /\ UNCHANGED <<cacheVars, callVars, recvVars, codecVars>>
    /\ UNCHANGED <<dev_volume, otherVars>>

\* the peripheral answers the running call with a frame the line corrupts,
\* or with a stray sentinel byte, immediately followed by a valid frame for
\* the expected command; nothing else arrives during the call
PeripheralSendPair ==
    /\ pc = "recv"
    /\ elapsed < TimeoutMs
    /\ scn = NoScn /\ ~rxseen /\ rx = <<>>
    /\ \E f \in ScnFrames, d \in {<<2>>} :
        LET v == _build_frame(IF expected_cmd = NoCmd THEN 1 ELSE expected_cmd, d)
        IN  \E c \in Corruptions(f) \cup {[kind |-> "stray", bytes |-> <<START>>]} :
                /\ c.bytes # f
                /\ Len(c.bytes) + Len(v) <= MaxStream
                /\ rx' = c.bytes \o v
                /\ scn' = [kind |-> c.kind, valid |-> v]
    /\ UNCHANGED <<expected_cmd, buf, state, need, elapsed, rxseen>>
    /\ UNCHANGED <<written, wstat>>
    /\ UNCHANGED <<cacheVars, callVars, codecVars>>
    /\ UNCHANGED <<dev_volume, otherVars>>

InitRecv == InitDriver /\ CodecIdle /\ OthersInit

NextRecv ==
    \/ RecvCall
    \/ RecvTimeout
    \/ RecvSleep
    \/ RecvByte
    \/ Tick
    \/ PeripheralSend
    \/ PeripheralSendPair
    \/ Ack

SpecRecv == InitRecv /\ [][NextRecv]_vars

\* the loop keeps running and the millisecond clock keeps advancing
SpecRecvLive ==
    /\ SpecRecv
    /\ WF_vars(RecvTimeout \/ RecvSleep \/ RecvByte)
    /\ WF_vars(Tick)

---------------------------------------------------------------------------
\* Codec specification

InitCodec ==
    /\ InitDriver /\ OthersInit
    /\ c_cmd \in CmdSamples
    /\ c_data \in SeqsUpTo(ByteSamples, MaxLen)
    /\ c_frame = <<>> /\ c_raw = <<>> /\ c_kind = "none"
    /\ c_parsed = NoParse /\ c_step = "init"

NextCodec ==
    \/ Encode
    \/ CorruptTruncate
    \/ CorruptByte
    \/ CorruptFlip
    \/ CorruptExtend
    \/ Decode

SpecCodec == InitCodec /\ [][NextCodec]_vars

---------------------------------------------------------------------------
\* Value and path validators

ErrU16 == "The parameter must be in the range of 0..65535"
ErrDisk == "The disk must be DISK_USB/SD/FLASH and must be online."
ErrMode == "mode must be a MODE_* constant"
ErrEq == "eq must be an EQ_* constant"
ErrChannel == "ch must be a CH_* constant"
ErrPathStart == "The path must start with '/'"
ErrPathChars ==
    "path contains illegal characters: only A-Z/0-9/_, and protocol formatters '*', '.', '/' are allowed"
ErrPathSegment == "The length of the folder name must be 1..8 bytes"
ErrMinSec == "Minutes/seconds must be in the range of 0..59"
\* the source message is in Chinese: "short_names must be a non-empty list"
ErrNamesEmpty == "short_names must be a non-empty list"
ErrNameLen == "The  name must be a 2-byte string, for example '01'"
ErrNameChars == " names are only allowed to contain A-Z or 0-9"
ErrLoopMode ==
    "The playback mode is incorrect, it supports \n(MODE_FULL_LOOP, MODE_SINGLE_LOOP, MODE_DIR_LOOP, MODE_SEQUENCE)"
ErrWrite == "UART Write failed"
\* whatever the transport raises from write()
ErrTransport == "uart.write failed"

\* ord('/'), ord('*'), ord('.'), ord('_')
SLASH == 47
STAR == 42
DOT == 46
UNDERSCORE == 95

\* _u16: is the value accepted, and its (H, L) bytes
u16_ok(value) == 0 <= value /\ value <= 65535
\* the two bytes low byte first
u16_bytes_low_first(value) == <<value % 256, (value \div 256) % 256>>
u16_bytes(value) == <<(value \div 256) % 256, value % 256>>

validate_disk_ok(disk) == disk \in {DISK_USB, DISK_SD, DISK_FLASH}
validate_mode_ok(mode) ==
    mode \in {MODE_FULL_LOOP, MODE_SINGLE_LOOP, MODE_SINGLE_STOP, MODE_FULL_RANDOM,
              MODE_DIR_LOOP, MODE_DIR_RANDOM, MODE_DIR_SEQUENCE, MODE_SEQUENCE}
validate_eq_ok(e) == e \in {EQ_NORMAL, EQ_POP, EQ_ROCK, EQ_JAZZ, EQ_CLASSIC}
validate_channel_ok(ch) == ch \in {CH_MP3, CH_AUX, CH_MP3_AUX}

\* the character test of _validate_path
PathCharOk(o) ==
    \/ o \in {SLASH, STAR, DOT}
    \/ o = UNDERSCORE
    \/ (48 <= o /\ o <= 57)
    \/ (65 <= o /\ o <= 90)

\* a segment loop that does not stop at '*' or '.'
RECURSIVE SegmentsAllOk(_, _, _)
SegmentsAllOk(path, i, seg) ==
    IF i > Len(path) THEN TRUE
    ELSE IF path[i] = SLASH
         THEN IF ~(1 <= seg /\ seg <= 8) THEN FALSE ELSE SegmentsAllOk(path, i + 1, 0)
    ELSE SegmentsAllOk(path, i + 1, seg + 1)

\* the segment loop of _validate_path from index i on, seg characters collected:
\* TRUE when it ends without raising
RECURSIVE SegmentsOk(_, _, _)
SegmentsOk(path, i, seg) ==
    IF i > Len(path) THEN TRUE
    ELSE IF path[i] = SLASH
         THEN IF ~(1 <= seg /\ seg <= 8) THEN FALSE ELSE SegmentsOk(path, i + 1, 0)
    ELSE IF path[i] \in {STAR, DOT} THEN TRUE
    ELSE SegmentsOk(path, i + 1, seg + 1)

\* a validation without the segment loop
validate_path_unsegmented(path) ==
    IF path = <<>> THEN ErrPathStart
    ELSE IF path[1] # SLASH THEN ErrPathStart
    ELSE IF \E i \in 1..Len(path) : ~PathCharOk(path[i]) THEN ErrPathChars
    ELSE ""

\* _validate_path: "" when the path is accepted, else the error message
_validate_path(path) ==
    IF path = <<>> THEN ErrPathStart
    ELSE IF path[1] # SLASH THEN ErrPathStart
    ELSE IF \E i \in 1..Len(path) : ~PathCharOk(path[i]) THEN ErrPathChars
    ELSE IF ~SegmentsOk(path, 2, 0) THEN ErrPathSegment
    ELSE ""

\* path.replace('.', '*')
ReplaceDot(path) == [i \in 1..Len(path) |-> IF path[i] = DOT THEN STAR ELSE path[i]]

\* two-byte payload of a numeric answer: (d[0] << 8) | d[1]
Word2(d) == IF Len(d) = 2 THEN <<d[1] * 256 + d[2]>> ELSE <<>>

---------------------------------------------------------------------------
\* The validators applied to drawn arguments

MaxPath == 4
PathAlphabet == {SLASH, DOT, 65, 97}
Rep(c, n) == [i \in 1..n |-> c]
\* "/MUSIC/01.MP3", every short string over the alphabet, and paths
\* "/" seg "/" seg tail with segments of 0, 1, 8 and 9 letters
PathInputs ==
    {<<47, 77, 85, 83, 73, 67, 47, 48, 49, 46, 77, 80, 51>>}
        \cup SeqsUpTo(PathAlphabet, MaxPath)
        \cup {<<SLASH>> \o Rep(65, a) \o <<SLASH>> \o Rep(66, b) \o t :
                 a \in {0, 1, 8, 9}, b \in {0, 1, 8, 9},
                 t \in {<<>>, <<SLASH>>, <<DOT, 77>>, <<STAR>>}}
        \cup {<<SLASH, 65, DOT, 66, SLASH>> \o Rep(67, n) \o <<SLASH, 68>> : n \in {0, 9}}
U16Inputs == (0..65535) \cup {-65536, -256, -1, 65536, 65537, 131072}

\* a validator called on its own: name, argument, what it returns or raises
Validate(name, a, r) ==
    /\ pc = "idle"
    /\ pc' = "done" /\ op' = name /\ args' = <<a>> /\ result' = r
    /\ UNCHANGED <<cacheVars, uartVars, recvVars, codecVars>>
    /\ UNCHANGED <<dev_volume, otherVars>>

\* pb = self._validate_path(path)
ValidatePath ==
    /\ pc = "idle"
    /\ \E p \in PathInputs :
        Validate("_validate_path", p,
                 IF _validate_path(p) = "" THEN Value(p)
                 ELSE Raised("ValueError", _validate_path(p)))

\* H, L = self._u16(value)
U16 ==
    /\ pc = "idle"
    /\ \E v \in U16Inputs :
        Validate("_u16", v,
                 IF u16_ok(v) THEN Value(u16_bytes(v)) ELSE Raised("ValueError", ErrU16))

\* the two bytes read back the way the queries decode them
Decode16 ==
    /\ pc = "done" /\ op = "_u16" /\ result.kind = "val"
    /\ op' = "decode16" /\ result' = Value(Word2(result.val))
    /\ UNCHANGED <<pc, args>>
    /\ UNCHANGED <<cacheVars, uartVars, recvVars, codecVars>>
    /\ UNCHANGED <<dev_volume, otherVars>>

InitArgs == InitDriver /\ CodecIdle /\ OthersInit

NextArgs == ValidatePath \/ U16 \/ Decode16 \/ Ack

SpecArgs == InitArgs /\ [][NextArgs]_vars

---------------------------------------------------------------------------
\* Command/query facade: each method as the outcome of one call

Cache ==
    [play_state |-> play_state, current_disk |-> current_disk, volume |-> volume,
     play_mode |-> play_mode, eq |-> eq, dac_channel |-> dac_channel]

\* a validator raises before anything is written
ArgError(m) ==
    [result |-> Raised("ValueError", m), written |-> <<>>, wstat |-> "none",
     cache |-> Cache, used |-> 0, exp |-> NoCmd]

\* uart.write raises: the transport's own IOError leaves the method
WriteFailed ==
    [result |-> Raised("IOError", ErrTransport), written |-> <<>>, wstat |-> "fail",
     cache |-> Cache, used |-> 0, exp |-> NoCmd]

\* self.uart.write(frame): the frame goes out, or the write raises (wok false)
uart_write(frame, wok) ==
    IF ~wok THEN WriteFailed
    ELSE [result |-> None, written |-> <<frame>>, wstat |-> "ok",
          cache |-> Cache, used |-> 0, exp |-> NoCmd]

\* _send_frame(cmd): a frame with empty payload; an exception of the write is
\* re-raised as IOError
_send_frame(cmd, wok) ==
    LET o == uart_write(_build_frame(cmd, <<>>), wok)
    IN  IF o.wstat = "fail" THEN [o EXCEPT !.result = Raised("IOError", ErrWrite)] ELSE o

\* the statements after a write: skipped when the write raised
Then(o, c) == IF o.wstat = "fail" THEN o ELSE [o EXCEPT !.cache = c]

\* a play that only takes the cache from stopped to playing
play_if_stopped(wok) ==
    Then(_send_frame(2, wok),
         IF play_state = PLAY_STOP THEN [Cache EXCEPT !.play_state = PLAY_PLAY] ELSE Cache)

play(wok) == Then(_send_frame(2, wok), [Cache EXCEPT !.play_state = PLAY_PLAY])
pause(wok) == Then(_send_frame(3, wok), [Cache EXCEPT !.play_state = PLAY_PAUSE])
stop(wok) == Then(_send_frame(4, wok), [Cache EXCEPT !.play_state = PLAY_STOP])
prev_track(wok) == _send_frame(5, wok)
next_track(wok) == _send_frame(6, wok)

\* the track number sent low byte first
select_track_low_first(track_no, playnow, wok) ==
    IF ~u16_ok(track_no) THEN ArgError(ErrU16)
    ELSE LET lh == <<u16_bytes(track_no)[2], u16_bytes(track_no)[1]>>
         IN  IF playnow
             THEN Then(uart_write(_build_frame(7, lh), wok),
                       [Cache EXCEPT !.play_state = PLAY_PLAY])
             ELSE uart_write(_build_frame(31, lh), wok)

select_track(track_no, playnow, wok) ==
    IF ~u16_ok(track_no) THEN ArgError(ErrU16)
    ELSE IF playnow
         THEN Then(uart_write(_build_frame(7, u16_bytes(track_no)), wok),
                   [Cache EXCEPT !.play_state = PLAY_PLAY])
         ELSE uart_write(_build_frame(31, u16_bytes(track_no)), wok)

play_disk_path(disk, path, wok) ==
    LET p == ReplaceDot(path)
    IN  IF ~validate_disk_ok(disk) THEN ArgError(ErrDisk)
        ELSE IF _validate_path(p) # "" THEN ArgError(_validate_path(p))
        ELSE Then(uart_write(_build_frame(8, <<disk>> \o p), wok),
                  [Cache EXCEPT !.play_state = PLAY_PLAY, !.current_disk = disk])

insert_track(disk, track_no, wok) ==
    IF ~validate_disk_ok(disk) THEN ArgError(ErrDisk)
    ELSE IF ~u16_ok(track_no) THEN ArgError(ErrU16)
    ELSE uart_write(_build_frame(22, <<disk>> \o u16_bytes(track_no)), wok)

insert_path(disk, path, wok) ==
    LET p == ReplaceDot(path)
    IN  IF ~validate_disk_ok(disk) THEN ArgError(ErrDisk)
        ELSE IF _validate_path(p) # "" THEN ArgError(_validate_path(p))
        ELSE uart_write(_build_frame(23, <<disk>> \o p), wok)

end_insert(wok) == _send_frame(16, wok)

\* a range check that excludes the lower bound
set_volume_above_min(vol, wok) ==
    IF ~(VOLUME_MIN < vol /\ vol <= VOLUME_MAX) THEN ArgError(ErrVolumeRange)
    ELSE Then(uart_write(_build_frame(19, <<vol>>), wok), [Cache EXCEPT !.volume = vol])

set_volume_early(vol, wok) ==
    IF ~(VOLUME_MIN <= vol /\ vol <= VOLUME_MAX) THEN ArgError(ErrVolumeRange)
    ELSE [uart_write(_build_frame(19, <<vol>>), wok) EXCEPT !.cache.volume = vol]

set_volume(vol, wok) ==
    IF ~(VOLUME_MIN <= vol /\ vol <= VOLUME_MAX) THEN ArgError(ErrVolumeRange)
    ELSE Then(uart_write(_build_frame(19, <<vol>>), wok), [Cache EXCEPT !.volume = vol])

\* a volume_up that also steps the cached volume
volume_up_cached(wok) ==
    Then(_send_frame(20, wok),
         [Cache EXCEPT !.volume = IF volume < VOLUME_MAX THEN volume + 1 ELSE volume])

volume_up(wok) == _send_frame(20, wok)
volume_down(wok) == _send_frame(21, wok)

set_eq_unchecked(e, wok) ==
    Then(uart_write(_build_frame(26, <<e % 256>>), wok), [Cache EXCEPT !.eq = e])

set_eq(e, wok) ==
    IF ~validate_eq_ok(e) THEN ArgError(ErrEq)
    ELSE Then(uart_write(_build_frame(26, <<e>>), wok), [Cache EXCEPT !.eq = e])

set_dac_channel(ch, wok) ==
    IF ~validate_channel_ok(ch) THEN ArgError(ErrChannel)
    ELSE Then(uart_write(_build_frame(29, <<ch>>), wok), [Cache EXCEPT !.dac_channel = ch])

set_play_mode(mode, wok) ==
    IF ~validate_mode_ok(mode) THEN ArgError(ErrMode)
    ELSE Then(uart_write(_build_frame(24, <<mode>>), wok), [Cache EXCEPT !.play_mode = mode])

\* the mode check moved before the write
set_loop_count_check_first(count, wok) ==
    IF ~u16_ok(count) THEN ArgError(ErrU16)
    ELSE IF play_mode \in {2, 3, 5, 6, 7} THEN ArgError(ErrLoopMode)
    ELSE uart_write(_build_frame(25, u16_bytes(count)), wok)

\* the mode check runs after the write
set_loop_count(count, wok) ==
    IF ~u16_ok(count) THEN ArgError(ErrU16)
    ELSE LET o == uart_write(_build_frame(25, u16_bytes(count)), wok)
         IN  IF o.wstat = "fail" THEN o
             ELSE IF play_mode \in {2, 3, 5, 6, 7}
                  THEN [o EXCEPT !.result = Raised("ValueError", ErrLoopMode)]
                  ELSE o

repeat_area_end_first(start_min, start_sec, end_min, end_sec, wok) ==
    IF \E x \in {start_min, start_sec, end_min, end_sec} : ~(0 <= x /\ x <= 59)
    THEN ArgError(ErrMinSec)
    ELSE uart_write(_build_frame(32, <<end_min, end_sec, start_min, start_sec>>), wok)

repeat_area(start_min, start_sec, end_min, end_sec, wok) ==
    IF \E x \in {start_min, start_sec, end_min, end_sec} : ~(0 <= x /\ x <= 59)
    THEN ArgError(ErrMinSec)
    ELSE uart_write(_build_frame(32, <<start_min, start_sec, end_min, end_sec>>), wok)

end_repeat(wok) == _send_frame(33, wok)

seek_back(seconds, wok) ==
    IF ~u16_ok(seconds) THEN ArgError(ErrU16)
    ELSE uart_write(_build_frame(34, u16_bytes(seconds)), wok)

seek_forward(seconds, wok) ==
    IF ~u16_ok(seconds) THEN ArgError(ErrU16)
    ELSE uart_write(_build_frame(35, u16_bytes(seconds)), wok)

\* bb.extend(s.encode('ascii')) for each name: the names joined in their
\* order, by halves so that long lists are evaluated at a small depth
RECURSIVE Flatten(_)
Flatten(names) ==
    IF names = <<>> THEN <<>>
    ELSE IF Len(names) = 1 THEN names[1]
    ELSE Flatten(SubSeq(names, 1, Len(names) \div 2))
             \o Flatten(SubSeq(names, Len(names) \div 2 + 1, Len(names)))

\* the checks of the loop body on one name: "" when it passes
NameError(name) ==
    IF Len(name) # 2 THEN ErrNameLen
    ELSE IF \E i \in 1..2 : ~((48 <= name[i] /\ name[i] <= 57)
                              \/ (65 <= name[i] /\ name[i] <= 90))
         THEN ErrNameChars
    ELSE ""

\* the first name the loop rejects decides the error (the list is searched
\* by halves, the first half first)
RECURSIVE NamesError(_)
NamesError(names) ==
    IF names = <<>> THEN ""
    ELSE IF Len(names) = 1 THEN NameError(names[1])
    ELSE IF NamesError(SubSeq(names, 1, Len(names) \div 2)) # ""
    THEN NamesError(SubSeq(names, 1, Len(names) \div 2))
    ELSE NamesError(SubSeq(names, Len(names) \div 2 + 1, Len(names)))

start_combination_playlist(short_names, wok) ==
    IF short_names = <<>> THEN ArgError(ErrNamesEmpty)
    ELSE IF NamesError(short_names) # "" THEN ArgError(NamesError(short_names))
    ELSE uart_write(_build_frame(27, Flatten(short_names)), wok)

end_combination_playlist(wok) == _send_frame(28, wok)
enable_play_time_send(wok) == _send_frame(37, wok)
disable_play_time_send(wok) == _send_frame(38, wok)

\* a wait that reports its timeout as an exception
Await_raises(o, cmd, stream) ==
    IF o.wstat = "fail" THEN o
    ELSE LET r == recv_response(stream, cmd)
         IN  [o EXCEPT !.used = r.used, !.exp = cmd,
                       !.result = IF r.ret = <<>> THEN Raised("OSError", "timeout")
                                  ELSE Value(r.ret)]

\* a wait that writes the request again when it times out
Await_resend(o, cmd, stream) ==
    IF o.wstat = "fail" THEN o
    ELSE LET r == recv_response(stream, cmd)
         IN  [o EXCEPT !.used = r.used, !.exp = cmd,
                       !.written = IF r.ret = <<>> THEN o.written \o o.written
                                   ELSE o.written,
                       !.result = IF r.ret = <<>> THEN None ELSE Value(r.ret)]

\* resp = self._recv_response(expected_cmd=cmd) after the request is written,
\* on the bytes that arrive before the deadline: the outcome holds the frame
\* in result.val (None: no frame)
Await(o, cmd, stream) ==
    IF o.wstat = "fail" THEN o
    ELSE LET r == recv_response(stream, cmd)
         IN  [o EXCEPT !.used = r.used, !.exp = cmd,
                       !.result = IF r.ret = <<>> THEN None ELSE Value(r.ret)]

Byte1_first(d) == IF Len(d) >= 1 THEN <<d[1]>> ELSE <<>>

Byte1(d) == IF Len(d) = 1 THEN <<d[1]>> ELSE <<>>
Time3(d) == IF Len(d) = 3 THEN <<d[1], d[2], d[3]>> ELSE <<>>

\* the value a query makes of the payload d (<<>>: None), how naming the
\* decoding of that query
Decoded(how, d) ==
    CASE how = "Byte1" -> Byte1(d)
      [] how = "Word2" -> Word2(d)
      [] how = "Time3" -> Time3(d)

\* d = self._parse_response(resp)['data'], then the decoding: the value
\* returned; a ValueError of the second parse propagates
Answer(o, how) ==
    IF o.wstat = "fail" \/ o.result.kind = "none" THEN o
    ELSE LET parsed == _parse_response(o.result.val)
         IN  IF ~parsed.ok THEN [o EXCEPT !.result = Raised("ValueError", parsed.err)]
             ELSE IF Decoded(how, parsed.data) = <<>> THEN [o EXCEPT !.result = None]
             ELSE [o EXCEPT !.result = Value(Decoded(how, parsed.data))]

query_status(wok, stream) ==
    LET o == Answer(Await(_send_frame(1, wok), 1, stream), "Byte1")
    IN  IF o.result.kind = "val"
        THEN [o EXCEPT !.cache.play_state = o.result.val[1]]
        ELSE o

query_online_disks(wok, stream) == Answer(Await(_send_frame(9, wok), 9, stream), "Byte1")

query_current_disk(wok, stream) ==
    LET o == Answer(Await(_send_frame(10, wok), 10, stream), "Byte1")
    IN  IF o.result.kind = "val"
        THEN [o EXCEPT !.cache.current_disk = o.result.val[1]]
        ELSE o

query_total_tracks(wok, stream) == Answer(Await(_send_frame(12, wok), 12, stream), "Word2")
query_current_track(wok, stream) == Answer(Await(_send_frame(13, wok), 13, stream), "Word2")
query_folder_first_track(wok, stream) ==
    Answer(Await(_send_frame(17, wok), 17, stream), "Word2")
query_folder_total_tracks(wok, stream) ==
    Answer(Await(_send_frame(18, wok), 18, stream), "Word2")

\* d.decode('ascii') if d else "": a str (kind "str"), None when a byte is no ASCII
query_short_filename(wok, stream) ==
    LET o == Await(_send_frame(30, wok), 30, stream)
    IN  IF o.wstat = "fail" \/ o.result.kind = "none" THEN o
        ELSE LET parsed == _parse_response(o.result.val)
             IN  IF ~parsed.ok THEN [o EXCEPT !.result = Raised("ValueError", parsed.err)]
                 ELSE IF \E i \in 1..Len(parsed.data) : parsed.data[i] > 127
                      THEN [o EXCEPT !.result = None]
                 ELSE [o EXCEPT !.result = [Value(parsed.data) EXCEPT !.kind = "str"]]

query_current_track_time(wok, stream) ==
    Answer(Await(_send_frame(36, wok), 36, stream), "Time3")

\* nothing is written: only the wait for a 0x25 report
check_play_time_send(stream) ==
    Answer(Await([result |-> None, written |-> <<>>, wstat |-> "none",
                  cache |-> Cache, used |-> 0, exp |-> NoCmd], 37, stream), "Time3")

---------------------------------------------------------------------------
\* The facade driven by a caller, against a peripheral that answers or not

\* argument samples
WriteOk == BOOLEAN
U16Samples == {-1, 0, 1, 258, 65535, 65536}
VolumeSamples == {-1, 0, 30, 31}
EqSamples == {EQ_NORMAL, EQ_POP, 5}
ChannelSamples == {CH_MP3, CH_MP3_AUX, 3}
ModeSamples == {MODE_FULL_LOOP, MODE_SINGLE_STOP, 8}
MinSecSamples == {<<0, 0, 0, 59>>, <<59, 59, 0, 0>>, <<60, 0, 0, 0>>, <<0, -1, 0, 0>>,
                  <<0, 0, 0, 60>>}
PathSamples ==
    { <<47, 77, 85, 83, 73, 67, 47, 48, 49, 46, 77, 80, 51>>,   \* "/MUSIC/01.MP3"
      <<47, 65>>,                                               \* "/A"
      <<>>,                                                     \* ""
      <<65>>,                                                   \* "A"
      <<47, 97>>,                                               \* "/a"
      <<47, 65, 66, 67, 68, 69, 70, 71, 72, 73, 47, 88>>,       \* "/ABCDEFGHI/X"
      <<47, 47, 65>> }                                          \* "//A"
NameListSamples ==
    { <<>>,                                                     \* []
      << <<48, 49>> >>,                                         \* ['01']
      << <<48, 49>>, <<90, 90>> >>,                             \* ['01', 'ZZ']
      << <<49>> >>,                                             \* ['1']
      << <<48, 97>> >> }                                        \* ['0a']

\* (disk, path) and (disk, track_no) arguments
DiskPathSamples ==
    {<<DISK_SD, p>> : p \in PathSamples}
        \cup {<<DISK_NONE, <<47, 65>> >>, <<3, <<47, 65>> >>, <<DISK_NONE, <<>> >>}
DiskTrackSamples ==
    {<<DISK_SD, n>> : n \in U16Samples} \cup {<<DISK_NONE, 258>>, <<3, 258>>, <<3, -1>>}

\* what the peripheral may send while a query for command c waits: the bytes
\* that arrive before the deadline, and those that arrive after it
\* the queries whose answer may arrive after the deadline
LateCmds == {1}
OtherCmd(c) == IF c = 37 THEN 1 ELSE 37
BadSum(f) == [f EXCEPT ![Len(f)] = (f[Len(f)] + 1) % 256]
RespPayloads == {<<>>, <<1>>, <<7>>, <<1, 2>>, <<0, 1, 2>>}
Arrivals(c) ==
    LET v1 == _build_frame(c, <<1>>)
        other == _build_frame(OtherCmd(c), <<0, 1, 2>>)
        single == {_build_frame(c, d) : d \in RespPayloads}
                      \cup {other, BadSum(v1), <<170>>, <<0>>}
    IN  {[intime |-> x, late |-> <<>>] : x \in {<<>>} \cup single}
        \cup {[intime |-> x \o v1, late |-> <<>>] : x \in {other, BadSum(v1), <<170>>}}
        \cup {[intime |-> v1 \o <<0>>, late |-> <<>>]}
        \cup {[intime |-> <<>>, late |-> v1] : x \in {c} \cap LateCmds}

\* one facade call from entry to return: a the arguments, o the outcome,
\* avail the bytes readable before the call returns, late those arriving
\* later, heard those among avail that arrived during the call
Invoke(name, a, o, avail, late, heard) ==
    /\ pc = "idle"
    /\ pc' = "done" /\ op' = name /\ args' = a
    /\ result' = o.result /\ written' = o.written /\ wstat' = o.wstat
    /\ play_state' = o.cache.play_state
    /\ current_disk' = o.cache.current_disk
    /\ volume' = o.cache.volume
    /\ play_mode' = o.cache.play_mode
    /\ eq' = o.cache.eq
    /\ dac_channel' = o.cache.dac_channel
    /\ rx' = SubSeq(avail, o.used + 1, Len(avail)) \o late
    /\ Len(rx') <= MaxRx
    /\ rxseen' = (o.used > 0)
    /\ expected_cmd' = o.exp
    /\ scn' = [kind |-> IF heard = <<>> THEN "none" ELSE "heard", valid |-> heard]
    /\ UNCHANGED <<buf, state, need, elapsed>>
    /\ UNCHANGED codecVars

\* a method of the driver called on its own
Call(name, a, o, avail, late, heard) ==
    /\ Invoke(name, a, o, avail, late, heard)
    /\ UNCHANGED <<dev_volume, otherVars>>

Command(name, a, o) == Call(name, a, o, rx, <<>>, <<>>)

Play == \E w \in WriteOk : Command("play", <<>>, play(w))
Pause == \E w \in WriteOk : Command("pause", <<>>, pause(w))
Stop == \E w \in WriteOk : Command("stop", <<>>, stop(w))
PrevTrack == \E w \in WriteOk : Command("prev_track", <<>>, prev_track(w))
NextTrack == \E w \in WriteOk : Command("next_track", <<>>, next_track(w))
SelectTrack ==
    \E n \in U16Samples, p \in BOOLEAN, w \in WriteOk :
        Command("select_track", <<n, p>>, select_track(n, p, w))
PlayDiskPath ==
    \E a \in DiskPathSamples, w \in WriteOk :
        Command("play_disk_path", a, play_disk_path(a[1], a[2], w))
InsertTrack ==
    \E a \in DiskTrackSamples, w \in WriteOk :
        Command("insert_track", a, insert_track(a[1], a[2], w))
InsertPath ==
    \E a \in DiskPathSamples, w \in WriteOk :
        Command("insert_path", a, insert_path(a[1], a[2], w))
EndInsert == \E w \in WriteOk : Command("end_insert", <<>>, end_insert(w))
SetVolume ==
    \E v \in VolumeSamples, w \in WriteOk : Command("set_volume", <<v>>, set_volume(v, w))
VolumeUp == \E w \in WriteOk : Command("volume_up", <<>>, volume_up(w))
VolumeDown == \E w \in WriteOk : Command("volume_down", <<>>, volume_down(w))
SetEq == \E e \in EqSamples, w \in WriteOk : Command("set_eq", <<e>>, set_eq(e, w))
SetDacChannel ==
    \E c \in ChannelSamples, w \in WriteOk :
        Command("set_dac_channel", <<c>>, set_dac_channel(c, w))
SetPlayMode ==
    \E m \in ModeSamples, w \in WriteOk :
        Command("set_play_mode", <<m>>, set_play_mode(m, w))
SetLoopCount ==
    \E n \in U16Samples, w \in WriteOk :
        Command("set_loop_count", <<n>>, set_loop_count(n, w))
RepeatArea ==
    \E t \in MinSecSamples, w \in WriteOk :
        Command("repeat_area", t, repeat_area(t[1], t[2], t[3], t[4], w))
EndRepeat == \E w \in WriteOk : Command("end_repeat", <<>>, end_repeat(w))
SeekBack ==
    \E n \in U16Samples, w \in WriteOk : Command("seek_back", <<n>>, seek_back(n, w))
SeekForward ==
    \E n \in U16Samples, w \in WriteOk : Command("seek_forward", <<n>>, seek_forward(n, w))
StartCombinationPlaylist ==
    \E l \in NameListSamples, w \in WriteOk :
        Command("start_combination_playlist", <<l>>, start_combination_playlist(l, w))
EndCombinationPlaylist ==
    \E w \in WriteOk : Command("end_combination_playlist", <<>>, end_combination_playlist(w))
EnablePlayTimeSend ==
    \E w \in WriteOk : Command("enable_play_time_send", <<>>, enable_play_time_send(w))
DisablePlayTimeSend ==
    \E w \in WriteOk : Command("disable_play_time_send", <<>>, disable_play_time_send(w))

\* a query: when the write raises nothing is read and nothing was awaited
Query(name, o, w, a) ==
    Call(name, <<>>, o, IF w THEN rx \o a.intime ELSE rx, IF w THEN a.late ELSE <<>>,
         IF w THEN a.intime ELSE <<>>)

QueryStatus ==
    \E w \in WriteOk, a \in Arrivals(1) :
        Query("query_status", query_status(w, rx \o a.intime), w, a)
QueryOnlineDisks ==
    \E w \in WriteOk, a \in Arrivals(9) :
        Query("query_online_disks", query_online_disks(w, rx \o a.intime), w, a)
QueryCurrentDisk ==
    \E w \in WriteOk, a \in Arrivals(10) :
        Query("query_current_disk", query_current_disk(w, rx \o a.intime), w, a)
QueryTotalTracks ==
    \E w \in WriteOk, a \in Arrivals(12) :
        Query("query_total_tracks", query_total_tracks(w, rx \o a.intime), w, a)
QueryCurrentTrack ==
    \E w \in WriteOk, a \in Arrivals(13) :
        Query("query_current_track", query_current_track(w, rx \o a.intime), w, a)
QueryFolderFirstTrack ==
    \E w \in WriteOk, a \in Arrivals(17) :
        Query("query_folder_first_track", query_folder_first_track(w, rx \o a.intime), w, a)
QueryFolderTotalTracks ==
    \E w \in WriteOk, a \in Arrivals(18) :
        Query("query_folder_total_tracks", query_folder_total_tracks(w, rx \o a.intime), w, a)
QueryShortFilename ==
    \E w \in WriteOk, a \in Arrivals(30) :
        Query("query_short_filename", query_short_filename(w, rx \o a.intime), w, a)
QueryCurrentTrackTime ==
    \E w \in WriteOk, a \in Arrivals(36) :
        Query("query_current_track_time", query_current_track_time(w, rx \o a.intime), w, a)
CheckPlayTimeSend ==
    \E a \in Arrivals(37) :
        Query("check_play_time_send", check_play_time_send(rx \o a.intime), TRUE, a)

Init == InitDriver /\ CodecIdle /\ OthersInit

Next ==
    \/ Play \/ Pause \/ Stop \/ PrevTrack \/ NextTrack
    \/ SelectTrack \/ PlayDiskPath \/ InsertTrack \/ InsertPath \/ EndInsert
    \/ SetVolume \/ VolumeUp \/ VolumeDown \/ SetEq \/ SetDacChannel
    \/ SetPlayMode \/ SetLoopCount \/ RepeatArea \/ EndRepeat
    \/ SeekBack \/ SeekForward
    \/ QueryStatus \/ QueryOnlineDisks \/ QueryCurrentDisk
    \/ QueryTotalTracks \/ QueryCurrentTrack
    \/ QueryFolderFirstTrack \/ QueryFolderTotalTracks
    \/ QueryShortFilename \/ QueryCurrentTrackTime
    \/ StartCombinationPlaylist \/ EndCombinationPlaylist
    \/ EnablePlayTimeSend \/ DisablePlayTimeSend \/ CheckPlayTimeSend
    \/ Ack

Spec == Init /\ [][Next]_vars

---------------------------------------------------------------------------
\* The queries alone

NextQuery ==
    \/ QueryStatus \/ QueryOnlineDisks \/ QueryCurrentDisk \/ QueryTotalTracks
    \/ QueryCurrentTrack \/ QueryFolderFirstTrack \/ QueryFolderTotalTracks
    \/ QueryShortFilename \/ QueryCurrentTrackTime \/ CheckPlayTimeSend
    \/ Ack

SpecQuery == Init /\ [][NextQuery]_vars

---------------------------------------------------------------------------
\* Construction: drv = DYSV19T(uart, default_volume=..., ...) replaces the
\* instance the caller holds, on the same UART

\* the attributes of a freshly constructed instance
Constructed(dv, dd, dm, dc) ==
    [result |-> None, written |-> <<>>, wstat |-> "none",
     cache |-> [play_state |-> PLAY_STOP, current_disk |-> dd, volume |-> dv,
                play_mode |-> dm, eq |-> EQ_NORMAL, dac_channel |-> dc],
     used |-> 0, exp |-> NoCmd]

init_any_timeout(uart_ok, dv, dd, dm, dc, t) ==
    IF ~uart_ok THEN ArgError("Invalid UART instance, must have read()/write()")
    ELSE IF ~(VOLUME_MIN <= dv /\ dv <= VOLUME_MAX)
    THEN ArgError("default_volume must be within 0..30")
    ELSE IF dd \notin {DISK_USB, DISK_SD, DISK_FLASH, DISK_NONE}
    THEN ArgError("default_disk must be a DISK_* constant")
    ELSE IF ~validate_mode_ok(dm)
    THEN ArgError("default_play_mode must be a MODE_* constant")
    ELSE IF ~validate_channel_ok(dc)
    THEN ArgError("default_dac_channel must be a CH_* constant")
    ELSE Constructed(dv, dd, dm, dc)

\* __init__: the argument checks in their order, then the assignments; the
\* message of the first check also carries a Chinese translation
__init__(uart_ok, dv, dd, dm, dc, t) ==
    IF ~uart_ok THEN ArgError("Invalid UART instance, must have read()/write()")
    ELSE IF ~(VOLUME_MIN <= dv /\ dv <= VOLUME_MAX)
    THEN ArgError("default_volume must be within 0..30")
    ELSE IF dd \notin {DISK_USB, DISK_SD, DISK_FLASH, DISK_NONE}
    THEN ArgError("default_disk must be a DISK_* constant")
    ELSE IF dm \notin {MODE_FULL_LOOP, MODE_SINGLE_LOOP, MODE_SINGLE_STOP, MODE_FULL_RANDOM,
                      MODE_DIR_LOOP, MODE_DIR_RANDOM, MODE_DIR_SEQUENCE, MODE_SEQUENCE}
    THEN ArgError("default_play_mode must be a MODE_* constant")
    ELSE IF dc \notin {CH_MP3, CH_AUX, CH_MP3_AUX}
    THEN ArgError("default_dac_channel must be a CH_* constant")
    ELSE IF t <= 0
    THEN ArgError("timeout_ms must be a positive integer")
    ELSE Constructed(dv, dd, dm, dc)

\* argument samples of the constructor
UartSamples == BOOLEAN
DefaultVolumeSamples == {-1, 0, 30, 31}
DefaultDiskSamples == {DISK_SD, DISK_NONE, 7}
DefaultModeSamples == {MODE_FULL_LOOP, MODE_SEQUENCE, 8}
DefaultChannelSamples == {CH_AUX, 3}
TimeoutSamples == {-1, 0, 1, 500}

New ==
    /\ pc = "idle"
    /\ \E u \in UartSamples, dv \in DefaultVolumeSamples, dd \in DefaultDiskSamples,
          dm \in DefaultModeSamples, dc \in DefaultChannelSamples, t \in TimeoutSamples :
            Command("__init__", <<dv, dd, dm, dc, t, IF u THEN 1 ELSE 0>>,
                    __init__(u, dv, dd, dm, dc, t))

InitNew == InitDriver /\ CodecIdle /\ OthersInit

\* bytes may wait unread on the line, as many as a facade call may leave
Waiting == PeripheralSend /\ Len(rx') <= MaxRx

NextNew == New \/ Play \/ SetEq \/ Waiting \/ Ack

SpecNew == InitNew /\ [][NextNew]_vars

---------------------------------------------------------------------------
\* The path and playlist commands on arguments whose payload passes 255 bytes

\* "/A*AA...A" with n letters after the '*', where the segment loop stops
LongPath(n) == <<SLASH, 65, STAR>> \o Rep(65, n)
\* n names "01"
LongNames(n) == [i \in 1..n |-> <<48, 49>>]

\* path lengths that put the payload (disk byte, "/A*", letters) around 255
LongPathLens == 248..255
LongNameCounts == 125..130
LongDisks == {DISK_USB, DISK_SD, DISK_FLASH}

\* frame[2] = len(data) with len(data) > 255 on a build whose bytearray
\* store checks the range: ValueError before anything is written
StoreChecked(strict, n, o) ==
    IF strict /\ n > 255 THEN ArgError("byte must be in range(0, 256)") ELSE o

PlayLongPath ==
    \E d \in LongDisks, n \in LongPathLens, w \in WriteOk, strict \in BOOLEAN :
        Command("play_disk_path", <<d, LongPath(n)>>,
                StoreChecked(strict, n + 4, play_disk_path(d, LongPath(n), w)))
InsertLongPath ==
    \E d \in LongDisks, n \in LongPathLens, w \in WriteOk, strict \in BOOLEAN :
        Command("insert_path", <<d, LongPath(n)>>,
                StoreChecked(strict, n + 4, insert_path(d, LongPath(n), w)))
StartLongPlaylist ==
    \E n \in LongNameCounts, w \in WriteOk, strict \in BOOLEAN :
        Command("start_combination_playlist", <<LongNames(n)>>,
                StoreChecked(strict, 2 * n, start_combination_playlist(LongNames(n), w)))

InitLong == InitDriver /\ CodecIdle /\ OthersInit

NextLong == PlayLongPath \/ InsertLongPath \/ StartLongPlaylist \/ Stop \/ Ack

SpecLong == InitLong /\ [][NextLong]_vars

---------------------------------------------------------------------------
\* set_loop_count under every play mode set_play_mode can cache

AllModes ==
    {MODE_FULL_LOOP, MODE_SINGLE_LOOP, MODE_SINGLE_STOP, MODE_FULL_RANDOM,
     MODE_DIR_LOOP, MODE_DIR_RANDOM, MODE_DIR_SEQUENCE, MODE_SEQUENCE}

SetAnyPlayMode ==
    \E m \in AllModes \cup {8}, w \in WriteOk :
        Command("set_play_mode", <<m>>, set_play_mode(m, w))

InitLoop == InitDriver /\ CodecIdle /\ OthersInit

NextLoop == SetAnyPlayMode \/ SetLoopCount \/ Ack

SpecLoop == InitLoop /\ [][NextLoop]_vars

---------------------------------------------------------------------------
\* The volume commands against a peripheral that applies every frame it gets

Min(a, b) == IF a <= b THEN a ELSE b
Max(a, b) == IF a >= b THEN a ELSE b

\* the volume the peripheral plays at after the frame f: 0x13 sets it, 0x14
\* and 0x15 step it by one, all clamped to 0..30
Applied(v, f) ==
    LET p == _parse_response(f)
    IN  IF ~p.ok THEN v
        ELSE IF p.cmd = 19 /\ Len(p.data) = 1
        THEN Max(VOLUME_MIN, Min(VOLUME_MAX, p.data[1]))
        ELSE IF p.cmd = 20 THEN Min(VOLUME_MAX, v + 1)
        ELSE IF p.cmd = 21 THEN Max(VOLUME_MIN, v - 1)
        ELSE v

\* the peripheral takes the frame the call has written
PeripheralApply ==
    /\ pc = "done" /\ written # <<>>
    /\ dev_volume' = Applied(dev_volume, Head(written))
    /\ written' = Tail(written)
    /\ UNCHANGED <<rx, wstat>>
    /\ UNCHANGED <<cacheVars, callVars, recvVars, codecVars, otherVars>>

\* the caller goes on once the peripheral has taken what was written
AckApplied == written = <<>> /\ Ack

InitMirror == InitDriver /\ CodecIdle /\ OthersInit

NextMirror == SetVolume \/ VolumeUp \/ VolumeDown \/ PeripheralApply \/ AckApplied

SpecMirror == InitMirror /\ [][NextMirror]_vars

---------------------------------------------------------------------------
\* musicTask: tick polled by the application, count raised by the vibration
\* callback between two ticks

\* the ticks after which a count is dropped, and the count that toggles
WindowTicks == 25
ToggleCount == 3
\* the highest count the callback is let to reach
MaxCount == 4

\* lines 37-41: <<count, time_segment>> after the window bookkeeping
Window(c, t) ==
    IF c # 0
    THEN IF t + 1 >= WindowTicks THEN <<0, 0>> ELSE <<c, t + 1>>
    ELSE <<c, t>>

\* a tick that sends nothing
Quiet ==
    [result |-> None, written |-> <<>>, wstat |-> "none",
     cache |-> Cache, used |-> 0, exp |-> NoCmd]

\* a toggle that plays whatever the query returned
toggle_always_play(w1, w2, stream) ==
    LET q == query_status(w1, stream)
        c == play(w2)
    IN  IF q.result.kind = "raise" THEN q
        ELSE [result |-> c.result, written |-> q.written \o c.written,
              wstat |-> c.wstat,
              cache |-> IF c.wstat = "fail" THEN q.cache
                        ELSE [q.cache EXCEPT !.play_state = c.cache.play_state],
              used |-> q.used, exp |-> q.exp]

\* lines 46-51: query_status(), then stop() when it returned 1 and play()
\* otherwise; an exception of the query leaves tick before the command
toggle(w1, w2, stream) ==
    LET q == query_status(w1, stream)
        c == IF q.result = Value(<<PLAY_PLAY>>) THEN stop(w2) ELSE play(w2)
    IN  IF q.result.kind = "raise" THEN q
        ELSE [result |-> c.result, written |-> q.written \o c.written,
              wstat |-> c.wstat,
              cache |-> IF c.wstat = "fail" THEN q.cache
                        ELSE [q.cache EXCEPT !.play_state = c.cache.play_state],
              used |-> q.used, exp |-> q.exp]

\* musicTask.tick()
TaskTick ==
    /\ pc = "idle"
    /\ LET b == Window(task_count, task_time_segment)
       IN  IF b[1] >= ToggleCount
           THEN \E w1 \in WriteOk, w2 \in WriteOk, a \in Arrivals(1) :
                   /\ Invoke("tick", <<>>, toggle(w1, w2, rx \o a.intime),
                             IF w1 THEN rx \o a.intime ELSE rx,
                             IF w1 THEN a.late ELSE <<>>,
                             IF w1 THEN a.intime ELSE <<>>)
                   /\ task_count' = 0 /\ task_time_segment' = b[2]
                   /\ queried' = <<query_status(w1, rx \o a.intime).result>>
           ELSE /\ Invoke("tick", <<>>, Quiet, rx, <<>>, <<>>)
                /\ task_count' = b[1] /\ task_time_segment' = b[2]
                /\ queried' = <<>>
    /\ UNCHANGED <<dev_volume, ringVars, sensorVars>>

\* the vibration callback of the application: one more vibration counted
Vibrate ==
    /\ pc = "idle" /\ task_count < MaxCount
    /\ task_count' = task_count + 1
    /\ UNCHANGED <<task_time_segment, queried>>
    /\ UNCHANGED <<cacheVars, uartVars, callVars, recvVars, codecVars>>
    /\ UNCHANGED <<dev_volume, ringVars, sensorVars>>

InitTask == InitDriver /\ CodecIdle /\ OthersInit

NextTask == TaskTick \/ Vibrate \/ Ack

SpecTask == InitTask /\ [][NextTask]_vars

---------------------------------------------------------------------------
\* CircularBuffer: a deque of at most max_size elements, oldest first

\* the capacity given at construction and the values appended
RingSize == 3
RingItems == {1, 2, 3}

\* the outcome of a method: what it returns or raises, and the deque it leaves
RingOutcome(ret, d) == [ret |-> ret, data |-> d]

\* append(item): on a full deque the oldest element goes first
append(d, x) ==
    RingOutcome(None, IF Len(d) = RingSize THEN Append(Tail(d), x) ELSE Append(d, x))

\* pop(): the oldest element; popleft raises on an empty deque
pop(d) ==
    IF d = <<>> THEN RingOutcome(Raised("IndexError", "empty"), d)
    ELSE RingOutcome(Value(<<Head(d)>>), Tail(d))

\* clear(): a new empty deque
clear(d) == RingOutcome(None, <<>>)

\* pop_head(): temp is the deque itself, not a copy. With one element it is
\* returned by temp.popleft(). With more, self.data.clear() is called: the
\* deque of MicroPython has no clear method and the call raises
\* AttributeError; on a build whose deque has one (has_clear), the shared
\* deque is emptied and the first temp.popleft() of the loop raises.
pop_head(d, has_clear) ==
    IF Len(d) = 1 THEN RingOutcome(Value(<<d[1]>>), <<>>)
    ELSE IF Len(d) > 1
         THEN IF has_clear
              THEN RingOutcome(Raised("IndexError", "empty"), <<>>)
              ELSE RingOutcome(Raised("AttributeError", "clear"), d)
    ELSE RingOutcome(Value(<<0>>), d)

\* a method of the buffer called by the application
RingCall(name, o) ==
    /\ rb_op' = name /\ rb_ret' = o.ret /\ rb_data' = o.data
    /\ UNCHANGED <<cacheVars, uartVars, callVars, recvVars, codecVars>>
    /\ UNCHANGED <<dev_volume, taskVars, sensorVars>>

RingAppend == \E x \in RingItems : RingCall("append", append(rb_data, x))
RingPop == RingCall("pop", pop(rb_data))
RingClear == RingCall("clear", clear(rb_data))
RingPopHead == \E c \in BOOLEAN : RingCall("pop_head", pop_head(rb_data, c))

InitRing == InitDriver /\ CodecIdle /\ OthersInit

NextRing == RingAppend \/ RingPop \/ RingClear \/ RingPopHead

SpecRing == InitRing /\ [][NextRing]_vars

---------------------------------------------------------------------------
\* VibrationSensor: the pin interrupt, the schedule queue of the interpreter
\* and the millisecond clock

\* the period of the wrapping millisecond counter, the debounce time given at
\* construction and the callbacks the schedule queue can hold
TicksPeriod == 16
DebounceMs == 2
SchedDepth == 2

\* time.ticks_diff(a, b): the signed difference of two wrapping tick values
ticks_diff(a, b) ==
    ((a - b + TicksPeriod \div 2) % TicksPeriod) - TicksPeriod \div 2

\* micropython.schedule(f, 0) with n callbacks waiting: one more waits, or
\* RuntimeError is raised when the queue is full
schedule(n) ==
    IF n < SchedDepth THEN [ret |-> None, n |-> n + 1]
    ELSE [ret |-> Raised("RuntimeError", "schedule queue full"), n |-> n]

\* a step of the sensor or of its surroundings
SensorStep(name) ==
    /\ vs_op' = name
    /\ UNCHANGED _callback
    /\ UNCHANGED <<cacheVars, uartVars, callVars, recvVars, codecVars>>
    /\ UNCHANGED <<dev_volume, taskVars, ringVars>>

\* a millisecond passes
Clock ==
    /\ SensorStep("clock")
    /\ ticks_ms' = (ticks_ms + 1) % TicksPeriod
    /\ vs_ret' = None
    /\ UNCHANGED <<_last_trigger, _last_state, pin_level, scheduled>>

\* _irq_handler(pin), the pin reading level when the handler looks at it
Irq ==
    \E level \in BOOLEAN :
        /\ SensorStep("_irq_handler")
        /\ UNCHANGED ticks_ms
        /\ IF ticks_diff(ticks_ms, _last_trigger) > DebounceMs
           THEN /\ _last_trigger' = ticks_ms
                /\ pin_level' = level
                /\ _last_state' = level
                /\ IF _callback
                   THEN scheduled' = schedule(scheduled).n
                            /\ vs_ret' = schedule(scheduled).ret
                   ELSE UNCHANGED scheduled /\ vs_ret' = None
           ELSE /\ UNCHANGED <<_last_trigger, _last_state, pin_level, scheduled>>
                /\ vs_ret' = None

\* the interpreter runs a waiting _scheduled_callback, which calls the
\* callback of the application
RunScheduled ==
    /\ scheduled > 0
    /\ SensorStep("_scheduled_callback")
    /\ scheduled' = scheduled - 1
    /\ vs_ret' = None
    /\ UNCHANGED <<_last_trigger, _last_state, pin_level, ticks_ms>>

\* read()
Read ==
    \E level \in BOOLEAN :
        /\ SensorStep("read")
        /\ pin_level' = level /\ _last_state' = level
        /\ vs_ret' = Value(<<level>>)
        /\ UNCHANGED <<_last_trigger, ticks_ms, scheduled>>

InitSensor ==
    /\ InitDriver /\ CodecIdle /\ musicTask_init /\ CircularBuffer_init
    /\ \E cb \in BOOLEAN : VibrationSensor_init(cb)

NextSensor == Clock \/ Irq \/ RunScheduled \/ Read

SpecSensor == InitSensor /\ [][NextSensor]_vars

---------------------------------------------------------------------------
\* Properties of the frame codec (SpecCodec)

\* a frame as the wire format defines it: AA CMD LEN DATA(LEN) SM
WellFormed(f) ==
    /\ Len(f) >= 4
    /\ f[1] = 170
    /\ Len(f) = 4 + f[3]
    /\ f[Len(f)] = ArithSum(SubSeq(f, 1, Len(f) - 1)) % 256

CacheAtDefaults ==
    /\ play_state = 0 /\ current_disk = 0 /\ volume = 30
    /\ play_mode = 2 /\ eq = 0 /\ dac_channel = 0

\* C1: parsing the frame built from a command code and a payload succeeds and
\* gives back exactly that command code and that payload.
C1_RoundTrip ==
    (c_step = "parsed" /\ c_kind = "clean")
        => (c_parsed.ok /\ c_parsed.cmd = c_cmd /\ c_parsed.data = c_data)

C1_Witness ==
    /\ c_step = "parsed" /\ c_kind = "clean"
    /\ c_cmd = 255 /\ Len(c_data) >= 1 /\ c_data[1] = 170

\* C2: the built frame has n+4 bytes laid out as AA, cmd, n, the payload in
\* order, and the low 8 bits of the arithmetic sum of all bytes before it.
C2_FrameLayout ==
    c_step \in {"built", "raw", "parsed"} =>
        LET n == Len(c_data)
        IN  /\ Len(c_frame) = n + 4
            /\ c_frame[1] = 170
            /\ c_frame[2] = c_cmd
            /\ c_frame[3] = n
            /\ SubSeq(c_frame, 4, n + 3) = c_data
            /\ c_frame[n + 4] = ArithSum(SubSeq(c_frame, 1, n + 3)) % 256

C2_Witness ==
    /\ c_step = "built" /\ Len(c_data) = 2
    /\ ArithSum(SubSeq(c_frame, 1, Len(c_frame) - 1)) >= 256

\* an error that reports the checksum mismatch: one of its own, raised for no
\* other failure of the driver
IsChecksumMismatch(m) ==
    m \notin {"", ErrTooShort, ErrBadStart, ErrLengthMismatch, ErrVolumeRange}

\* C3: _parse_response succeeds iff the input has at least 4 bytes, starts
\* with 0xAA, is 4 + LENGTH bytes long and ends with the low 8 bits of the sum
\* of the other bytes; otherwise it fails with the first applicable error of
\* TooShort, BadStart, LengthMismatch, ChecksumMismatch; the driver state is
\* untouched either way.
C3_ParseOutcome ==
    c_step = "parsed" =>
        /\ CacheAtDefaults
        /\ IF Len(c_raw) < 4
           THEN ~c_parsed.ok /\ c_parsed.err = ErrTooShort
           ELSE IF c_raw[1] # 170
           THEN ~c_parsed.ok /\ c_parsed.err = ErrBadStart
           ELSE IF Len(c_raw) # 4 + c_raw[3]
           THEN ~c_parsed.ok /\ c_parsed.err = ErrLengthMismatch
           ELSE IF c_raw[Len(c_raw)] # ArithSum(SubSeq(c_raw, 1, Len(c_raw) - 1)) % 256
           THEN ~c_parsed.ok /\ IsChecksumMismatch(c_parsed.err)
           ELSE c_parsed.ok

---------------------------------------------------------------------------
\* Properties of the receiver (SpecRecv, SpecRecvLive)

\* C4: when the call's stream is a corrupted frame immediately followed by a
\* valid frame with the expected command code, the call delivers the valid
\* frame, whatever the corruption (payload, checksum or LENGTH byte,
\* truncation): it returns nothing else, and it does not read the whole
\* stream without delivering.
C4_ResyncDelivers ==
    (pc = "done" /\ scn.kind # "none") =>
        /\ result.kind = "val" => result.val = scn.valid
        /\ rx = <<>> => result.kind = "val"

\* C5: a frame _recv_response returns is well-formed and, when expected_cmd
\* is given, carries that command code; with expected_cmd None the byte that
\* completes a well-formed frame makes the call return that frame.
C5_DeliveredIsValid ==
    [][ /\ (pc = "recv" /\ pc' = "done" /\ result'.kind = "val") =>
            /\ WellFormed(result'.val)
            /\ expected_cmd = NoCmd \/ result'.val[2] = expected_cmd
        /\ (pc = "recv" /\ expected_cmd = NoCmd /\ state = 1
                /\ rx # <<>> /\ rx' = Tail(rx) /\ WellFormed(Append(buf, Head(rx)))) =>
            /\ pc' = "done"
            /\ result' = Value(Append(buf, Head(rx)))
      ]_vars

C5_Witness ==
    /\ pc = "done" /\ op = "_recv_response" /\ result.kind = "val"
    /\ expected_cmd = NoCmd /\ result.val[2] = 10

\* C6: every _recv_response call returns, a frame or None, and never raises.
C6_RecvTerminates ==
    (pc = "recv") ~> (pc = "done" /\ result.kind \in {"none", "val"})

C6_Witness ==
    /\ pc = "done" /\ op = "_recv_response" /\ result.kind = "none"
    /\ rxseen /\ rx # <<>>

\* C22: every _recv_response call starts seeking with an empty buffer, so the
\* bytes of a partial frame an earlier call consumed before timing out are
\* never combined with the bytes of a later call: the buffer only ever grows
\* by the byte the running call has just read, and the frame returned is that
\* buffer.
C22_FreshLocals ==
    [][ /\ (pc = "idle" /\ pc' = "recv") => (buf' = <<>> /\ state' = 0 /\ need' = 0)
        /\ (pc = "recv" /\ buf' # buf) =>
            /\ rx # <<>> /\ rx' = Tail(rx)
            /\ buf' \in {<<>>, <<Head(rx)>>, Append(buf, Head(rx))}
        /\ (pc = "recv" /\ pc' = "done" /\ result'.kind = "val") => result'.val = buf'
      ]_vars

\* a call has started on a line whose next bytes are the rest of a frame
\* the call before it timed out in the middle of
C22_Witness ==
    /\ pc = "recv" /\ ~rxseen /\ buf = <<>> /\ state = 0
    /\ Len(rx) >= 3 /\ SubSeq(rx, 1, 3) = <<1, 1, 173>>

\* C31: when _recv_response delivers a frame it has consumed exactly the bytes
\* up to and including that frame's checksum byte: the step that delivers
\* reads one byte, the frame's last, and what follows it in the stream stays
\* unread, through the return and into the next receive call.
C31_ConsumesThroughChecksum ==
    [][ /\ (pc = "recv" /\ pc' = "done" /\ result'.kind = "val") =>
            /\ rx # <<>> /\ rx' = Tail(rx)
            /\ result'.val[Len(result'.val)] = Head(rx)
        /\ (pc \in {"done", "idle"}) =>
            /\ Len(rx') >= Len(rx)
            /\ SubSeq(rx', 1, Len(rx)) = rx
      ]_vars

\* a frame was delivered while the frame that followed it waits unread
C31_Witness ==
    /\ pc = "done" /\ op = "_recv_response" /\ result.kind = "val"
    /\ Len(rx) = 5 /\ WellFormed(rx)

\* C21: a stray 0xAA immediately followed by a complete valid frame with the
\* expected command code, all read before the deadline, still makes the same
\* _recv_response call deliver that frame.
C21_StraySentinel ==
    (pc = "done" /\ scn.kind = "stray" /\ rx = <<>>) => result = Value(scn.valid)

---------------------------------------------------------------------------
\* Properties of the facade (Spec)

QueryOps ==
    {"query_status", "query_online_disks", "query_current_disk", "query_total_tracks",
     "query_current_track", "query_folder_first_track", "query_folder_total_tracks",
     "query_short_filename", "query_current_track_time", "check_play_time_send"}

\* a facade call returns in this step
Returns == pc = "idle" /\ pc' = "done"

CacheUnchanged == UNCHANGED cacheVars

\* C7: a query during which no byte is received returns None, raises
\* nothing, and leaves the six cache fields as they were before the call.
C7_SilentQuery ==
    [][ (Returns /\ op' \in QueryOps /\ wstat' # "fail" /\ rx = <<>> /\ ~rxseen') =>
            /\ result' = None
            /\ CacheUnchanged
      ]_vars

C7_Witness ==
    /\ pc = "done" /\ op = "query_status" /\ wstat = "ok" /\ ~rxseen
    /\ result = None /\ rx = <<>>
    /\ play_state = PLAY_PLAY

\* C8: whatever arrives during a query (malformed, checksum-invalid or
\* wrong-command data included), the query raises nothing: it returns None or
\* a decoded value; when it returns None no cache field changes, and a value
\* changes only the field the query is about, to the value returned.
C8_GarbageInvisible ==
    [][ (Returns /\ op' \in QueryOps /\ wstat' # "fail") =>
            /\ result'.kind \in {"none", "val", "str"}
            /\ result'.kind = "none" => CacheUnchanged
            /\ UNCHANGED <<volume, play_mode, eq, dac_channel>>
            /\ play_state' # play_state =>
                   op' = "query_status" /\ result' = Value(<<play_state'>>)
            /\ current_disk' # current_disk =>
                   op' = "query_current_disk" /\ result' = Value(<<current_disk'>>)
      ]_vars

\* bytes were read and thrown away, the query gave None and the cache kept a
\* value set earlier
C8_Witness ==
    /\ pc = "done" /\ op = "query_current_disk" /\ wstat = "ok" /\ rxseen
    /\ result = None /\ rx = <<>>
    /\ current_disk = DISK_SD

\* C9: when the transport write raises, the call raises that error, nothing
\* is read from the transport (no wait is started) and no cache field changes.
C9_WriteFailure ==
    [][ (Returns /\ wstat' = "fail") =>
            /\ result'.kind = "raise" /\ result'.msg \in {ErrWrite, ErrTransport}
            /\ written' = <<>>
            /\ rx' = rx /\ ~rxseen' /\ expected_cmd' = NoCmd
            /\ CacheUnchanged
      ]_vars

C9_Witness ==
    /\ pc = "done" /\ op = "query_status" /\ wstat = "fail"
    /\ result.kind = "raise" /\ rx # <<>>
    /\ volume = 0

\* the documented domain of each validated argument
IsUpperOrDigit(o) == o \in 48..57 \/ o \in 65..90
DirSegmentsOk(p) ==
    \A i, j \in 1..Len(p) :
        (/\ i < j /\ p[i] = 47 /\ p[j] = 47
         /\ \A k \in (i + 1)..(j - 1) : p[k] # 47
         /\ \A k \in 1..j : p[k] \notin {42, 46})
            => (j - i - 1) \in 1..8
PathValid(p) ==
    /\ p # <<>> /\ p[1] = 47
    /\ \A i \in 1..Len(p) : IsUpperOrDigit(p[i]) \/ p[i] \in {47, 42, 46, 95}
    /\ DirSegmentsOk(p)
NamesValid(l) ==
    /\ l # <<>>
    /\ \A i \in 1..Len(l) : Len(l[i]) = 2 /\ \A k \in 1..2 : IsUpperOrDigit(l[i][k])
ValidatedOps ==
    {"select_track", "play_disk_path", "insert_track", "insert_path", "set_volume",
     "set_eq", "set_dac_channel", "set_play_mode", "repeat_area", "seek_back",
     "seek_forward", "start_combination_playlist", "set_loop_count"}
InDomain(o, a) ==
    CASE o \in {"select_track", "seek_back", "seek_forward"} -> a[1] \in 0..65535
      [] o \in {"play_disk_path", "insert_path"} -> a[1] \in 0..2 /\ PathValid(a[2])
      [] o = "insert_track" -> a[1] \in 0..2 /\ a[2] \in 0..65535
      [] o = "set_volume" -> a[1] \in 0..30
      [] o = "set_eq" -> a[1] \in 0..4
      [] o = "set_dac_channel" -> a[1] \in 0..2
      [] o = "set_play_mode" -> a[1] \in 0..7
      [] o = "repeat_area" -> \A i \in 1..4 : a[i] \in 0..59
      [] o = "start_combination_playlist" -> NamesValid(a[1])
      [] o = "set_loop_count" -> a[1] \in 1..65535
      [] OTHER -> TRUE

\* C10: a validated operation called with an argument outside its domain
\* raises before any byte is written and leaves every cache field unchanged.
C10_InvalidArgRejected ==
    [][ (Returns /\ op' \in ValidatedOps /\ ~InDomain(op', args')) =>
            /\ result'.kind = "raise" /\ result'.err = "ValueError"
            /\ written' = <<>> /\ wstat' = "none"
            /\ CacheUnchanged
      ]_vars

\* the request code of each query and the payload length of its answer
QueryCmd(o) ==
    CASE o = "query_status" -> 1
      [] o = "query_online_disks" -> 9
      [] o = "query_current_disk" -> 10
      [] o = "query_total_tracks" -> 12
      [] o = "query_current_track" -> 13
      [] o = "query_folder_first_track" -> 17
      [] o = "query_folder_total_tracks" -> 18
      [] o = "query_short_filename" -> 30
      [] o = "query_current_track_time" -> 36
      [] o = "check_play_time_send" -> 37
AnswerLen(o) ==
    IF o \in {"query_status", "query_online_disks", "query_current_disk"} THEN 1
    ELSE IF o \in {"query_current_track_time", "check_play_time_send"} THEN 3
    ELSE 2
NumericQueries == QueryOps \ {"query_short_filename"}

\* the candidate frame that starts at position i of the byte stream h
FrameAt(h, i) ==
    IF i + 2 <= Len(h) /\ i + 3 + h[i + 2] <= Len(h)
    THEN SubSeq(h, i, i + 3 + h[i + 2])
    ELSE <<>>
\* the well-formed answers to query o within h
AnswersIn(h, o) ==
    {f \in {FrameAt(h, i) : i \in 1..Len(h)} :
        f # <<>> /\ WellFormed(f) /\ f[2] = QueryCmd(o) /\ f[3] = AnswerLen(o)}
\* the value the query makes of an answer frame
AnswerValue(f) ==
    CASE f[3] = 1 -> Value(<<f[4]>>)
      [] f[3] = 2 -> Value(<<f[4] * 256 + f[5]>>)
      [] f[3] = 3 -> Value(<<f[4], f[5], f[6]>>)

\* C11: when a well-formed answer with the query's command code and the
\* expected payload length arrives before the deadline, the query returns the
\* value decoded from it; query_status stores that value in play_state and
\* query_current_disk in current_disk.
C11_AnswerDecoded ==
    [][ (Returns /\ op' \in NumericQueries /\ wstat' # "fail") =>
            \A f \in AnswersIn(scn'.valid, op') :
                /\ result' = AnswerValue(f)
                /\ op' = "query_status" => play_state' = f[4]
                /\ op' = "query_current_disk" => current_disk' = f[4]
      ]_vars

\* C12: set_volume(v) passes validation exactly when 0 <= v <= 30; then the
\* one frame AA 13 01 v SM is written and the cached volume is v; otherwise
\* it raises, nothing is written and the cached volume stays.
C12_SetVolume ==
    [][ (Returns /\ op' = "set_volume") =>
            LET v == args'[1]
            IN  /\ (v < 0 \/ v > 30) =>
                    /\ result'.kind = "raise" /\ result'.err = "ValueError"
                    /\ written' = <<>> /\ wstat' = "none"
                    /\ volume' = volume
                /\ (0 <= v /\ v <= 30) => wstat' # "none"
                /\ (0 <= v /\ v <= 30 /\ wstat' = "ok") =>
                    /\ result' = None
                    /\ written' = << <<170, 19, 1, v, (170 + 19 + 1 + v) % 256>> >>
                    /\ volume' = v
      ]_vars

C12_Witness ==
    /\ pc = "done" /\ op = "set_volume" /\ args = <<0>> /\ wstat = "ok"
    /\ volume = 0 /\ written = << <<170, 19, 1, 0, 190>> >>

\* C13: play() writes exactly AA 02 00 AC and, the write done, the cached
\* playback state is playing whatever it was; pause() writes AA 03 00 AD and
\* caches paused; stop() writes AA 04 00 AE and caches stopped.
C13_TransportControl ==
    [][ (Returns /\ op' \in {"play", "pause", "stop"}) =>
            /\ wstat' \in {"ok", "fail"}
            /\ wstat' = "ok" =>
                /\ result' = None
                /\ op' = "play" =>
                       written' = << <<170, 2, 0, 172>> >> /\ play_state' = 1
                /\ op' = "pause" =>
                       written' = << <<170, 3, 0, 173>> >> /\ play_state' = 2
                /\ op' = "stop" =>
                       written' = << <<170, 4, 0, 174>> >> /\ play_state' = 0
                /\ UNCHANGED <<current_disk, volume, play_mode, eq, dac_channel>>
      ]_vars

\* play() returned with the other cache fields away from their defaults
C13_Witness ==
    /\ pc = "done" /\ op = "play" /\ wstat = "ok"
    /\ written = << <<170, 2, 0, 172>> >> /\ play_state = 1
    /\ current_disk = 7 /\ volume = 0

\* the frame AA cmd 02 hi lo SM that carries the 16-bit number n
U16Frame(cmd, n) ==
    <<170, cmd, 2, n \div 256, n % 256, (170 + cmd + 2 + (n \div 256) + (n % 256)) % 256>>

\* the effect of a select_track call with n in range, sm1 being the checksum
\* byte stated for the frame of select_track(1, play=True)
SelectTrackEffect(sm1) ==
    (Returns /\ op' = "select_track" /\ args'[1] \in 0..65535) =>
        /\ wstat' \in {"ok", "fail"}
        /\ wstat' = "ok" =>
            /\ result' = None
            /\ args'[2] =>
                   written' = <<U16Frame(7, args'[1])>> /\ play_state' = 1
            /\ ~args'[2] =>
                   written' = <<U16Frame(31, args'[1])>> /\ play_state' = play_state
            /\ args' = <<1, TRUE>> => written' = << <<170, 7, 2, 0, 1, sm1>> >>
            /\ UNCHANGED <<current_disk, volume, play_mode, eq, dac_channel>>

\* C14 (amended): select_track(n, play=True) with n in range writes one frame
\* with command 0x07 and n as two bytes, high byte first, and caches playing;
\* n = 1 gives AA 07 02 00 01 B4; with play=False the same payload goes out
\* under command 0x1F and the cached playback state stays.
C14_SelectTrack == [][SelectTrackEffect(180)]_vars

\* C14 as stated: the frame of select_track(1, play=True) is AA 07 02 00 01 B2.
C14_AsStated == [][SelectTrackEffect(178)]_vars

\* select_track(258, play=False) returned while the cache says paused
C14_Witness ==
    /\ pc = "done" /\ op = "select_track" /\ args = <<258, FALSE>> /\ wstat = "ok"
    /\ written = << <<170, 31, 2, 1, 2, 206>> >>
    /\ play_state = 2

C16_LoopCountRange ==
    [][ (Returns /\ op' = "set_loop_count" /\ args'[1] \notin 1..65535) =>
            /\ result' = Raised("ValueError", ErrU16)
            /\ written' = <<>> /\ wstat' = "none"
      ]_vars

---------------------------------------------------------------------------
\* Properties of the validators (SpecArgs)

PathCalled == pc = "done" /\ op = "_validate_path"
MusicPath == <<47, 77, 85, 83, 73, 67, 47, 48, 49, 46, 77, 80, 51>>
HasBadChar(p) == \E i \in 1..Len(p) : ~(IsUpperOrDigit(p[i]) \/ p[i] \in {47, 42, 46, 95})
\* nine name characters in a row: a segment longer than 8
HasLongSegment(p) ==
    \E i \in 1..(Len(p) - 8) : \A k \in i..(i + 8) : p[k] \notin {47, 42, 46}
\* two separators in a row: an empty directory segment
HasEmptyDirSegment(p) == \E i \in 1..(Len(p) - 1) : p[i] = 47 /\ p[i + 1] = 47

\* C17 (amended): _validate_path accepts /MUSIC/01.MP3 and returns the path's
\* bytes; it rejects exactly the paths that are empty, do not start with '/',
\* contain a character outside {'/', '*', '.', '_', 0-9, A-Z}, or have, before
\* the first '*' or '.', a directory segment (closed by a following '/') that
\* is empty or longer than 8 characters.
C17_ValidatePath ==
    PathCalled =>
        /\ result.kind = "raise" <=> ~PathValid(args[1])
        /\ result.kind = "raise" => result.err = "ValueError"
        /\ result.kind # "raise" => result = Value(args[1])
        /\ args[1] = MusicPath => result = Value(MusicPath)

\* C17 as stated: every path with a segment longer than 8 characters or an
\* empty directory segment is rejected, wherever the segment stands.
C17_AsStated ==
    PathCalled =>
        /\ args[1] = MusicPath => result = Value(MusicPath)
        /\ (\/ args[1] = <<>>
            \/ args[1][1] # 47
            \/ HasBadChar(args[1])
            \/ HasLongSegment(args[1])
            \/ HasEmptyDirSegment(args[1])) => result.kind = "raise"

\* a nine-letter directory name rejected
C17_Witness ==
    /\ PathCalled /\ args = << <<47>> \o Rep(65, 9) \o <<47, 66>> >>
    /\ result = Raised("ValueError", ErrPathSegment)

\* C18: for every v in 0..65535 _u16(v) is (v div 256, v mod 256), and the
\* decoding (d[0] << 8) | d[1] of those two bytes is v again; for every other
\* v _u16 raises the out-of-range error.
C18_U16BigEndian ==
    /\ (pc = "done" /\ op = "_u16") =>
           IF args[1] \in 0..65535
           THEN result = Value(<<args[1] \div 256, args[1] % 256>>)
           ELSE result = Raised("ValueError", ErrU16)
    /\ (pc = "done" /\ op = "decode16") =>
           /\ args[1] \in 0..65535
           /\ result = Value(<<args[1]>>)

\* 0xABCD encoded as AB, CD and read back
C18_Witness ==
    /\ pc = "done" /\ op = "decode16" /\ args = <<43981>>
    /\ result = Value(<<43981>>)

\* the index of the first '*' or '.' of p, or one past its end
FormatStart(p) ==
    IF \E i \in 1..Len(p) : p[i] \in {42, 46}
    THEN CHOOSE i \in 1..Len(p) :
             p[i] \in {42, 46} /\ \A k \in 1..(i - 1) : p[k] \notin {42, 46}
    ELSE Len(p) + 1
\* a directory segment closed by the '/' at j, before the first '*' or '.',
\* that is empty or longer than 8 characters
ClosedSegmentBad(p) ==
    \E j \in 2..(FormatStart(p) - 1) :
        /\ p[j] = 47
        /\ \E i \in 1..(j - 1) :
               /\ p[i] = 47 /\ \A k \in (i + 1)..(j - 1) : p[k] # 47
               /\ ~(1 <= j - i - 1 /\ j - i - 1 <= 8)

\* C35: in _validate_path the segment-length check ends at the first '*' or
\* '.': on a path that starts with '/' and holds only allowed characters, the
\* call raises the folder-name error exactly when a directory segment closed
\* by a '/' before that character has a length outside 1..8; whatever stands
\* from that character on, later '/'-delimited segments included, and a final
\* segment not closed by '/' have no effect on the outcome.
C35_SegmentCheckStops ==
    (PathCalled /\ args[1] # <<>> /\ args[1][1] = 47 /\ ~HasBadChar(args[1])) =>
        IF ClosedSegmentBad(args[1])
        THEN result = Raised("ValueError", ErrPathSegment)
        ELSE result = Value(args[1])

\* "/A.B/CCCCCCCCC/D" accepted: nine letters between separators after the '.'
C35_Witness ==
    /\ PathCalled /\ args = << <<47, 65, 46, 66, 47>> \o Rep(67, 9) \o <<47, 68>> >>
    /\ result.kind = "val"

---------------------------------------------------------------------------
\* Further properties of the frame codec (SpecCodec)

\* C19: a built frame with one bit of its checksum byte flipped makes
\* _parse_response fail, and the failure is the checksum-mismatch error.
C19_ChecksumFlip ==
    (c_step = "parsed" /\ c_kind = "flip") =>
        /\ ~c_parsed.ok
        /\ IsChecksumMismatch(c_parsed.err)

\* C20: a frame (start byte and at least four bytes present) whose LENGTH
\* byte differs from the number of bytes between the LENGTH byte and the
\* final byte makes _parse_response raise the length-mismatch error.
C20_LengthMismatch ==
    (/\ c_step = "parsed"
     /\ Len(c_raw) >= 4 /\ c_raw[1] = 170
     /\ c_raw[3] # Len(c_raw) - 4) =>
        /\ ~c_parsed.ok
        /\ c_parsed.err = ErrLengthMismatch

\* a frame cut short by one payload byte, its last byte no longer a checksum
C20_Witness ==
    /\ c_step = "parsed" /\ c_kind = "truncated"
    /\ Len(c_frame) = 6 /\ Len(c_raw) = 5
    /\ c_parsed.err = ErrLengthMismatch

---------------------------------------------------------------------------
\* Properties of the facade across calls, of the peripheral's volume
\* (SpecMirror) and of construction (SpecNew)

\* C23: a well-formed frame with another command code that arrives first
\* during a query's filtered wait is consumed and discarded: the query's
\* answer comes only from the bytes after it (None, with the cache unchanged,
\* when there are none), and what the call leaves unread is a suffix of the
\* bytes after it, so that no later receive call can obtain the frame.
C23_WrongCommandDiscarded ==
    [][ (Returns /\ op' \in QueryOps /\ wstat' # "fail" /\ rx = <<>>) =>
            LET h == scn'.valid
                f == FrameAt(h, 1)
                rest == SubSeq(h, Len(f) + 1, Len(h))
            IN  (f # <<>> /\ WellFormed(f) /\ f[2] # QueryCmd(op')) =>
                    /\ \E k \in 0..Len(rest) : rx' = SubSeq(rest, k + 1, Len(rest))
                    /\ result'.kind \in {"none", "val", "str"}
                    /\ result'.kind = "val" =>
                           \E g \in AnswersIn(rest, op') : result' = AnswerValue(g)
                    /\ rest = <<>> => (result' = None /\ CacheUnchanged)
      ]_vars

\* a play-time frame (0x25) arrived during query_status and is gone
C23_Witness ==
    /\ pc = "done" /\ op = "query_status" /\ wstat = "ok"
    /\ scn.valid = _build_frame(37, <<0, 1, 2>>)
    /\ result = None /\ rx = <<>>

\* C24: the cached volume mirrors the peripheral: between calls, after any
\* sequence of successfully written set_volume, volume_up and volume_down
\* against a peripheral that applies each command (clamped to 0..30), the
\* cached volume is the volume the peripheral plays at.
C24_CacheMirrorsPeripheral ==
    pc = "idle" => volume = dev_volume

\* C25: whatever bytes the peripheral sends, the cached play_state is one of
\* stopped, playing, paused and the cached current_disk is one of the DISK_*
\* constants.
C25_StateAndDiskInDomain ==
    /\ play_state \in {PLAY_STOP, PLAY_PLAY, PLAY_PAUSE}
    /\ current_disk \in {DISK_USB, DISK_SD, DISK_FLASH, DISK_NONE}

\* the arguments a of the constructor are all in range
DefaultsValid(a) ==
    /\ a[6] = 1
    /\ a[1] \in 0..30
    /\ a[2] \in {DISK_USB, DISK_SD, DISK_FLASH, DISK_NONE}
    /\ a[3] \in 0..7
    /\ a[4] \in 0..2
    /\ a[5] > 0

\* C26: construction only stores state: it writes nothing and reads nothing;
\* with valid arguments it returns an instance whose cache holds play_state
\* stopped, eq normal and the caller's defaults for current_disk, volume,
\* play_mode and dac_channel; with any default out of range (volume outside
\* 0..30, unknown disk, mode or channel, timeout_ms <= 0) it raises.
C26_Construction ==
    [][ (Returns /\ op' = "__init__") =>
            /\ written' = <<>> /\ wstat' = "none"
            /\ rx' = rx /\ ~rxseen'
            /\ DefaultsValid(args') =>
                   /\ result' = None
                   /\ play_state' = PLAY_STOP /\ eq' = EQ_NORMAL
                   /\ volume' = args'[1] /\ current_disk' = args'[2]
                   /\ play_mode' = args'[3] /\ dac_channel' = args'[4]
            /\ ~DefaultsValid(args') =>
                   /\ result'.kind = "raise" /\ result'.err = "ValueError"
                   /\ CacheUnchanged
      ]_vars

\* an instance constructed with non-default arguments while bytes wait unread
C26_Witness ==
    /\ pc = "done" /\ op = "__init__" /\ result = None /\ rx # <<>>
    /\ volume = 0 /\ current_disk = DISK_NONE
    /\ play_mode = MODE_SEQUENCE /\ dac_channel = CH_AUX
    /\ play_state = PLAY_STOP /\ eq = EQ_NORMAL

\* the command code the wire-format table assigns to operation o called
\* with the arguments a
WireCode(o, a) ==
    CASE o = "play" -> 2
      [] o = "pause" -> 3
      [] o = "stop" -> 4
      [] o = "prev_track" -> 5
      [] o = "next_track" -> 6
      [] o = "select_track" -> IF a[2] THEN 7 ELSE 31
      [] o = "play_disk_path" -> 8
      [] o = "end_insert" -> 16
      [] o = "set_volume" -> 19
      [] o = "volume_up" -> 20
      [] o = "volume_down" -> 21
      [] o = "insert_track" -> 22
      [] o = "insert_path" -> 23
      [] o = "set_play_mode" -> 24
      [] o = "set_loop_count" -> 25
      [] o = "set_eq" -> 26
      [] o = "start_combination_playlist" -> 27
      [] o = "end_combination_playlist" -> 28
      [] o = "set_dac_channel" -> 29
      [] o = "repeat_area" -> 32
      [] o = "end_repeat" -> 33
      [] o = "seek_back" -> 34
      [] o = "seek_forward" -> 35
      [] o = "enable_play_time_send" -> 37
      [] o = "disable_play_time_send" -> 38
      [] o \in QueryOps -> QueryCmd(o)

\* the argument bytes of operation o in the documented order: 16-bit numbers
\* high byte first, a path after its disk with every '.' sent as '*'
WirePayload(o, a) ==
    CASE o \in {"select_track", "set_loop_count", "seek_back", "seek_forward"} ->
            <<a[1] \div 256, a[1] % 256>>
      [] o = "insert_track" -> <<a[1], a[2] \div 256, a[2] % 256>>
      [] o \in {"play_disk_path", "insert_path"} ->
            <<a[1]>> \o [i \in 1..Len(a[2]) |-> IF a[2][i] = DOT THEN STAR ELSE a[2][i]]
      [] o \in {"set_volume", "set_eq", "set_dac_channel", "set_play_mode"} -> <<a[1]>>
      [] o = "repeat_area" -> a
      [] o = "start_combination_playlist" -> Flatten(a[1])
      [] OTHER -> <<>>

\* a call of one of the operations ops that returns without raising has
\* written exactly one frame, with the table's code and the argument bytes
WritesItsFrame(ops) ==
    (Returns /\ op' \in ops /\ result'.kind # "raise") =>
        /\ Len(written') = 1
        /\ Len(written'[1]) >= 4
        /\ written'[1][2] = WireCode(op', args')
        /\ SubSeq(written'[1], 4, Len(written'[1]) - 1) = WirePayload(op', args')

CommandOps ==
    {"play", "pause", "stop", "prev_track", "next_track", "select_track",
     "play_disk_path", "insert_track", "insert_path", "end_insert", "set_volume",
     "volume_up", "volume_down", "set_eq", "set_dac_channel", "set_play_mode",
     "set_loop_count", "repeat_area", "end_repeat", "seek_back", "seek_forward",
     "start_combination_playlist", "end_combination_playlist",
     "enable_play_time_send", "disable_play_time_send"}

\* C27 (amended): each facade operation other than check_play_time_send that
\* succeeds writes exactly one frame whose command byte is the code the
\* wire-format table assigns to it and whose payload is exactly the validated
\* argument bytes in the documented order; check_play_time_send only listens
\* and writes nothing.
C27_OneFrame ==
    [][ /\ WritesItsFrame((CommandOps \cup QueryOps) \ {"check_play_time_send"})
        /\ (Returns /\ op' = "check_play_time_send") => written' = <<>>
      ]_vars

\* C27 as stated: every facade operation that succeeds writes exactly one
\* frame with its command code and argument bytes.
C27_AsStated ==
    [][WritesItsFrame(CommandOps \cup QueryOps)]_vars

\* repeat_area(0, 0, 0, 59) has written AA 20 04 00 00 00 3B SM
C27_Witness ==
    /\ pc = "done" /\ op = "repeat_area" /\ args = <<0, 0, 0, 59>>
    /\ result = None /\ wstat = "ok"
    /\ Len(written) = 1 /\ SubSeq(written[1], 1, 7) = <<170, 32, 4, 0, 0, 0, 59>>

\* C28: in every state reachable after construction, whatever the
\* operations, arguments, peripheral responses, timeouts and write failures,
\* the cached volume is within 0..30, play_mode is one of the eight MODE_*
\* constants, eq one of the five EQ_* and dac_channel one of the three CH_*.
C28_SettingsInDomain ==
    /\ volume \in VOLUME_MIN..VOLUME_MAX
    /\ play_mode \in {MODE_FULL_LOOP, MODE_SINGLE_LOOP, MODE_SINGLE_STOP, MODE_FULL_RANDOM,
                      MODE_DIR_LOOP, MODE_DIR_RANDOM, MODE_DIR_SEQUENCE, MODE_SEQUENCE}
    /\ eq \in {EQ_NORMAL, EQ_POP, EQ_ROCK, EQ_JAZZ, EQ_CLASSIC}
    /\ dac_channel \in {CH_MP3, CH_AUX, CH_MP3_AUX}

\* all four settings were changed and an out-of-range set_eq was refused
C28_Witness ==
    /\ pc = "done" /\ op = "set_eq" /\ args = <<5>> /\ result.kind = "raise"
    /\ volume = 0 /\ play_mode = MODE_FULL_LOOP /\ eq = EQ_POP /\ dac_channel = CH_MP3_AUX

\* C29: each cache field is changed only by its own operations: play_state
\* only by play, pause, stop, select_track(play=True), play_disk_path and
\* query_status; current_disk only by play_disk_path and query_current_disk;
\* volume only by set_volume; play_mode only by set_play_mode; eq only by
\* set_eq; dac_channel only by set_dac_channel. Every other operation leaves
\* all six fields unchanged.
C29_FieldOwners ==
    [][ Returns =>
            /\ play_state' # play_state =>
                   \/ op' \in {"play", "pause", "stop", "play_disk_path", "query_status"}
                   \/ op' = "select_track" /\ args'[2]
            /\ current_disk' # current_disk =>
                   op' \in {"play_disk_path", "query_current_disk"}
            /\ volume' # volume => op' = "set_volume"
            /\ play_mode' # play_mode => op' = "set_play_mode"
            /\ eq' # eq => op' = "set_eq"
            /\ dac_channel' # dac_channel => op' = "set_dac_channel"
            /\ op' \notin {"play", "pause", "stop", "select_track", "play_disk_path",
                           "query_status", "query_current_disk", "set_volume",
                           "set_play_mode", "set_eq", "set_dac_channel"} =>
                   CacheUnchanged
      ]_vars

\* volume_up was written while the cache held values set earlier
C29_Witness ==
    /\ pc = "done" /\ op = "volume_up" /\ wstat = "ok"
    /\ volume = 0 /\ play_state = PLAY_PAUSE /\ eq = EQ_POP

\* C30: a value a query returns is decoded from a frame the peripheral sent
\* after the query's request was written: an answer to an earlier query that
\* arrived late and was left unread is never returned by a later query with
\* the same command code, and never updates the cache on its behalf.
C30_NoStaleAnswer ==
    [][ (Returns /\ op' \in NumericQueries /\ wstat' = "ok") =>
            /\ result'.kind = "val" =>
                   \E f \in AnswersIn(scn'.valid, op') : result' = AnswerValue(f)
            /\ scn'.valid = <<>> => CacheUnchanged
      ]_vars

\* C32: every byte sequence the driver passes to the transport's write is a
\* well-formed frame, accepted by _parse_response, for every argument the
\* validators accept, validated paths and short-name lists of any length
\* included.
C32_WrittenWellFormed ==
    \A i \in 1..Len(written) : _parse_response(written[i]).ok

\* C33: a query whose matching, checksum-valid response carries a data
\* length other than the one the query expects (1 byte for status, online
\* disks and current disk, 2 bytes for track numbers and counts, 3 bytes for
\* play time) returns None and changes no cache field, as a timeout does.
C33_WrongLengthIsNone ==
    [][ (Returns /\ op' \in NumericQueries /\ wstat' # "fail" /\ rx = <<>>) =>
            LET f == FrameAt(scn'.valid, 1)
            IN  (f # <<>> /\ WellFormed(f) /\ f[2] = QueryCmd(op')
                     /\ f[3] # AnswerLen(op')) =>
                    (result' = None /\ CacheUnchanged)
      ]_vars

\* query_status was answered with two data bytes while the cache said playing
C33_Witness ==
    /\ pc = "done" /\ op = "query_status" /\ wstat = "ok"
    /\ scn.valid = _build_frame(1, <<1, 2>>)
    /\ result = None /\ rx = <<>> /\ play_state = PLAY_PLAY

\* C34: each query writes exactly one request frame, its command code with
\* an empty payload, before it reads any byte (when the write fails nothing is
\* read), and never retransmits: when it returns None exactly one frame has
\* been written. check_play_time_send writes nothing and only waits for a
\* 0x25 frame: it returns (h, m, s) for a valid 3-byte report and None
\* otherwise.
C34_OneRequest ==
    [][ /\ (Returns /\ op' \in QueryOps \ {"check_play_time_send"}) =>
            /\ wstat' \in {"ok", "fail"}
            /\ wstat' = "ok" =>
                   /\ written' = << <<170, QueryCmd(op'), 0, (170 + QueryCmd(op')) % 256>> >>
                   /\ expected_cmd' = QueryCmd(op')
            /\ wstat' = "fail" => (written' = <<>> /\ rx' = rx /\ ~rxseen')
        /\ (Returns /\ op' = "check_play_time_send") =>
            /\ written' = <<>> /\ wstat' = "none" /\ expected_cmd' = 37
            /\ result'.kind \in {"none", "val"}
            /\ result'.kind = "val" =>
                   \E f \in AnswersIn(rx \o scn'.valid, op') : result' = AnswerValue(f)
            /\ (rx = <<>> /\ AnswersIn(scn'.valid, op') = {}) => result' = None
            /\ LET f == FrameAt(scn'.valid, 1)
               IN  (rx = <<>> /\ f # <<>> /\ WellFormed(f) /\ f[2] = 37 /\ f[3] = 3) =>
                       result' = Value(<<f[4], f[5], f[6]>>)
      ]_vars

\* query_online_disks timed out in silence after writing AA 09 00 B3 once
C34_Witness ==
    /\ pc = "done" /\ op = "query_online_disks" /\ wstat = "ok"
    /\ result = None /\ ~rxseen
    /\ written = << <<170, 9, 0, 179>> >>


---------------------------------------------------------------------------
\* Properties of set_loop_count under every play mode (SpecLoop)

\* the modes the message of line 789 names as supported
NamedSupported == {MODE_FULL_LOOP, MODE_SINGLE_LOOP, MODE_DIR_LOOP, MODE_SEQUENCE}

\* C36: set_loop_count with a count in 1..65535 completes without raising
\* whenever the cached play mode is one of MODE_FULL_LOOP, MODE_SINGLE_LOOP,
\* MODE_DIR_LOOP and MODE_SEQUENCE and the UART takes the frame.
C36_NamedModesAccepted ==
    [][ (Returns /\ op' = "set_loop_count" /\ args'[1] \in 1..65535
            /\ play_mode \in NamedSupported /\ wstat' = "ok") =>
            result'.kind # "raise"
      ]_vars


---------------------------------------------------------------------------
\* Properties of musicTask (SpecTask)

\* the window bookkeeping drops the count at this tick
Dropped == task_count # 0 /\ task_time_segment + 1 >= 25
\* the frames of the status query, of play and of stop
StatusRequest == <<170, 1, 0, 171>>
PlayRequest == <<170, 2, 0, 172>>
StopRequest == <<170, 4, 0, 174>>

---------------------------------------------------------------------------
\* Properties of CircularBuffer (SpecRing)

\* C38: pop_head returns 0 on an empty buffer; on a buffer of n >= 1 elements
\* it returns the element appended last and removes it, the other n-1
\* elements staying in the buffer in their order.
C38_PopHeadNewest ==
    [][ (rb_op' = "pop_head" /\ ringVars' # ringVars) =>
            IF rb_data = <<>>
            THEN rb_ret' = Value(<<0>>) /\ rb_data' = <<>>
            ELSE /\ rb_ret' = Value(<<rb_data[Len(rb_data)]>>)
                 /\ rb_data' = SubSeq(rb_data, 1, Len(rb_data) - 1)
      ]_vars


---------------------------------------------------------------------------
\* Properties of VibrationSensor (SpecSensor)

\* C39: an interrupt whose interval since the last accepted trigger is not
\* greater than debounce_ms is ignored: _last_state and _last_trigger keep
\* their values and no callback is scheduled, so two scheduled callbacks are
\* more than debounce_ms apart. An accepted interrupt records the time and the
\* pin level and, when a callback is set, schedules it exactly once.
C39_Debounce ==
    [][ vs_op' = "_irq_handler" =>
            IF ticks_diff(ticks_ms, _last_trigger) <= DebounceMs
            THEN UNCHANGED <<_last_state, _last_trigger, scheduled>>
            ELSE /\ _last_trigger' = ticks_ms
                 /\ _last_state' = pin_level'
                 /\ scheduled' = scheduled + (IF _callback THEN 1 ELSE 0)
      ]_vars

====
